---- MODULE Spec2Model ----
(***************************************************************************)
(* Candidate scoring and recommendation engine (role_engine.py,            *)
(* skill_engine.py, roadmap_engine.py) and the request pipeline of app.py. *)
(*                                                                         *)
(* Numbers.  Python floats are modelled by exact scaled integers:          *)
(*   ratios (match, authenticity)      in units of 1/10000  ("ratio4")     *)
(*   readiness scores and components   in units of 0.01     ("centi")      *)
(*   CGPA                              in units of 0.01                    *)
(*   dsa_weight                        in units of 0.001                   *)
(*   activity_score                    in units of 0.01                    *)
(* round(x, n) is round-half-to-even on the exact value.                   *)
(*                                                                         *)
(* Strings are atomic in TLA+: str.lower() is the table Lower, and the     *)
(* ordering of strings used by sorted() is the table Rank.                 *)
(***************************************************************************)
EXTENDS Integers, Sequences, FiniteSets, TLC

VARIABLES roles, pc, call, ret, pl, files, procs, session, http

vars == <<roles, pc, call, ret, pl, files, procs, session, http>>

\* The state outside the engines: the JSON files of the job board (files),
\* the calls of apply_to_job under way (procs), the Flask session of the
\* browser (session) and the module state of leetcode_parser (http).
outside == <<files, procs, session, http>>

NoFiles == [apps |-> <<>>, jobs |-> <<>>, issued |-> 0]

NoSession == [user |-> "", role |-> "", candidate_profile |-> FALSE]

NoHttp == [session |-> 0, failures |-> 0, created |-> 0, posts |-> <<>>]

OutsideIdle ==
    /\ files = NoFiles
    /\ procs = <<>>
    /\ session = NoSession
    /\ http = NoHttp

\* ------------------------------------------------------------------------
\* Bounds of the model
\* ------------------------------------------------------------------------
MaxCand == 2

MaxGroup == 2

\* ------------------------------------------------------------------------
\* Python values
\* ------------------------------------------------------------------------
Max(a, b) == IF a >= b THEN a ELSE b

Min(a, b) == IF a <= b THEN a ELSE b

\* A value that is either None or a list.
PyNone == [none |-> TRUE, items |-> <<>>]

PyList(l) == [none |-> FALSE, items |-> l]

\* `x or []`
OrEmpty(l) == IF l.none THEN <<>> ELSE l.items

\* `not x` for a list-or-None value
Falsy(l) == l.none \/ l.items = <<>>

\* An optional number: None / absent key, or a value.
Absent == [none |-> TRUE, val |-> 0]

Some(x) == [none |-> FALSE, val |-> x]

Lists(S, n) == UNION {[1..k -> S] : k \in 0..n}

PyLists(S, n) == {PyNone} \cup {PyList(l) : l \in Lists(S, n)}

Range(s) == {s[i] : i \in 1..Len(s)}

\* The orders in which the entries of v can be visited.
Orders(v) ==
    {[i \in 1..Len(v) |-> v[f[i]]] : f \in Permutations(1..Len(v))}

\* str.lower() on the strings of the model
Lower(s) ==
    CASE s = "Python" -> "python"
      [] s = "SQL" -> "sql"
      [] s = "Docker" -> "docker"
      [] s = "Git" -> "git"
      [] s = "Backend Developer" -> "backend developer"
      [] s = "BACKEND DEVELOPER" -> "backend developer"
      [] s = "Data Scientist" -> "data scientist"
      [] s = "Intern" -> "intern"
      [] s = "Trainee" -> "trainee"
      [] s = "Gen" -> "gen"
      [] s = "GEN" -> "gen"
      [] s = "Ghost" -> "ghost"
      [] s = "DevOps Engineer" -> "devops engineer"
      [] s = "Platform Engineer" -> "platform engineer"
      [] OTHER -> s

\* str.strip() on the strings of the model
Strip(s) ==
    CASE s = " python " -> "python"
      [] s = " j1 " -> "j1"
      [] s = " recruiter " -> "recruiter"
      [] s = " " -> ""
      [] OTHER -> s

\* The order of the lowercase skill strings under Python's str comparison.
Rank(s) ==
    CASE s = "" -> 0
      [] s = " python " -> 1
      [] s = "docker" -> 2
      [] s = "g" -> 3
      [] s = "g o" -> 4
      [] s = "git" -> 5
      [] s = "go" -> 6
      [] s = "machine learning" -> 7
      [] s = "python" -> 8
      [] s = "s" -> 9
      [] s = "sql" -> 10
      [] OTHER -> 11

\* {s.lower() for s in xs}
LowerSetRaw(xs) == {xs[i] : i \in 1..Len(xs)}

LowerSet(xs) == {Lower(xs[i]) : i \in 1..Len(xs)}

\* sorted(S) for a set of lowercase skill strings
RECURSIVE SortedNames(_)
SortedNames(S) ==
    IF S = {} THEN <<>>
    ELSE LET m == CHOOSE x \in S : \A y \in S : Rank(x) <= Rank(y)
         IN <<m>> \o SortedNames(S \ {m})

\* Python's round(): n/d rounded to the nearest integer, ties to even.
RoundHalfEvenNat(n, d) ==
    LET q == n \div d
        r == n % d
    IN  IF 2 * r < d THEN q
        ELSE IF 2 * r > d THEN q + 1
        ELSE IF q % 2 = 0 THEN q ELSE q + 1

RoundHalfEven(n, d) ==
    IF n >= 0 THEN RoundHalfEvenNat(n, d) ELSE 0 - RoundHalfEvenNat(0 - n, d)

\* ------------------------------------------------------------------------
\* role_engine.py: the role catalogue _ROLES and its helpers
\* ------------------------------------------------------------------------
\* A role is [name, blank, required_skills, nice_to_have, min_cgpa,
\* dsa_weight]; required_skills is the sequence of its sub-groups, each the
\* sequence of its (skill, weight) items in dict order.  blank marks a role
\* whose JSON value is {} (falsy).
Role(n, req, nth, mc, dw) ==
    [name |-> n, blank |-> FALSE, required_skills |-> req,
     nice_to_have |-> nth, min_cgpa |-> mc, dsa_weight |-> dw]

\* flat[skill.lower()] = weight: the weight met last replaces the earlier one.
FlatPutLastWins(flat, skill, weight) ==
    LET k == Lower(skill)
    IN  IF \E i \in 1..Len(flat) : flat[i].skill = k
        THEN [i \in 1..Len(flat) |->
                IF flat[i].skill = k THEN [skill |-> k, weight |-> weight]
                ELSE flat[i]]
        ELSE Append(flat, [skill |-> k, weight |-> weight])

\* flat[skill.lower()] = max(flat.get(skill.lower(), 0), weight)
FlatPut(flat, skill, weight) ==
    LET k == Lower(skill)
    IN  IF \E i \in 1..Len(flat) : flat[i].skill = k
        THEN [i \in 1..Len(flat) |->
                IF flat[i].skill = k
                THEN [skill |-> k, weight |-> Max(flat[i].weight, weight)]
                ELSE flat[i]]
        ELSE Append(flat, [skill |-> k, weight |-> Max(0, weight)])

RECURSIVE FlattenGroup(_, _)
FlattenGroup(flat, group) ==
    IF group = <<>> THEN flat
    ELSE FlattenGroup(FlatPut(flat, group[1][1], group[1][2]), Tail(group))

RECURSIVE FlattenGroups(_, _)
FlattenGroups(flat, groups) ==
    IF groups = <<>> THEN flat
    ELSE FlattenGroups(FlattenGroup(flat, groups[1]), Tail(groups))

\* _flatten_required: the ordered {skill: weight} map, as the sequence of
\* its items in insertion order.
FlattenRequired(role_data) ==
    IF role_data.blank THEN <<>>
    ELSE FlattenGroups(<<>>, role_data.required_skills)

FlatKeys(flat) == {flat[i].skill : i \in 1..Len(flat)}

\* _ROLES.get(role), then the case-insensitive fallback loop, which stops at
\* the first role whose lowercased name matches.  0 when nothing matches.
ExactIndex(cat, role) ==
    IF \E i \in 1..Len(cat) : cat[i].name = role
    THEN CHOOSE i \in 1..Len(cat) : cat[i].name = role
    ELSE 0

FoldedIndex(cat, role) ==
    IF \E i \in 1..Len(cat) : Lower(cat[i].name) = Lower(role)
    THEN CHOOSE i \in 1..Len(cat) :
            /\ Lower(cat[i].name) = Lower(role)
            /\ \A j \in 1..(i - 1) : Lower(cat[j].name) # Lower(role)
    ELSE 0

\* The lookup that settles for the first role when no name matches.
LookupRoleOrFirst(cat, role) ==
    IF ExactIndex(cat, role) # 0 THEN ExactIndex(cat, role)
    ELSE IF FoldedIndex(cat, role) # 0 THEN FoldedIndex(cat, role)
    ELSE IF cat # <<>> /\ ~cat[1].blank THEN 1 ELSE 0

LookupRole(cat, role) ==
    LET e == ExactIndex(cat, role)
    IN  IF e # 0 /\ ~cat[e].blank THEN e
        ELSE LET f == FoldedIndex(cat, role)
             IN  IF f # 0 /\ ~cat[f].blank THEN f ELSE 0

\* ------------------------------------------------------------------------
\* role_engine.py: recommend_role
\* ------------------------------------------------------------------------
\* sum(1 for skill in flat_req if skill in candidate_set)
MatchedCount(flat, candidate_set) ==
    Cardinality({i \in 1..Len(flat) : flat[i].skill \in candidate_set})

\* The loop body with `>=` for `>`: the last role reaching the best ratio wins.
RecommendStepLastWins(best, role_data, candidate_set) ==
    LET flat_req == FlattenRequired(role_data)
        required_count == Len(flat_req)
        matched == MatchedCount(flat_req, candidate_set)
    IN  IF required_count = 0 THEN best
        ELSE IF matched * best.den >= best.num * required_count
        THEN [role |-> role_data.name, num |-> matched, den |-> required_count]
        ELSE best

\* One iteration of the loop over _ROLES.items(); best is
\* [role, num, den], the best ratio so far being num/den (-1/1 at the start).
RecommendStep(best, role_data, candidate_set) ==
    LET flat_req == FlattenRequired(role_data)
        required_count == Len(flat_req)
        matched == MatchedCount(flat_req, candidate_set)
    IN  IF required_count = 0 THEN best
        ELSE IF matched * best.den > best.num * required_count
        THEN [role |-> role_data.name, num |-> matched, den |-> required_count]
        ELSE best

RECURSIVE RecommendLoop(_, _, _)
RecommendLoop(best, cat, candidate_set) ==
    IF cat = <<>> THEN best
    ELSE RecommendLoop(RecommendStep(best, cat[1], candidate_set),
                       Tail(cat), candidate_set)

\* recommend_role(candidate_skills) -> (role_name, match_ratio); the ratio
\* is in ratio4 units.
recommend_role(cat, candidate_skills) ==
    IF Falsy(candidate_skills) \/ cat = <<>>
    THEN [role |-> "", ratio |-> 0]
    ELSE LET candidate_set == LowerSet(candidate_skills.items)
             best == RecommendLoop([role |-> "", num |-> 0 - 1, den |-> 1],
                                   cat, candidate_set)
         IN  [role |-> best.role,
              ratio |-> RoundHalfEven(best.num * 10000, best.den)]

\* ------------------------------------------------------------------------
\* role_engine.py: recommend_roles
\* ------------------------------------------------------------------------
RECURSIVE SumWeights(_)
SumWeights(flat) ==
    IF flat = <<>> THEN 0 ELSE flat[1].weight + SumWeights(Tail(flat))

\* _match_score(candidate_set, role_flat) -> (raw, max_score)
MatchScore(candidate_set, role_flat) ==
    [raw |-> SumWeights(SelectSeq(role_flat,
                                  LAMBDA it : it.skill \in candidate_set)),
     max_s |-> SumWeights(role_flat)]

\* The multiplier that ignores the CGPA.
CgpaMultiplierNeutral(cgpa, min_cgpa) == 100

\* _cgpa_multiplier(cgpa, min_cgpa), in hundredths; cgpa in units of 0.01.
CgpaMultiplier(cgpa, min_cgpa) ==
    IF cgpa.none \/ cgpa.val <= 0 THEN 100
    ELSE IF cgpa.val >= min_cgpa + 150 THEN 105
    ELSE IF cgpa.val >= min_cgpa THEN 100
    ELSE IF cgpa.val >= min_cgpa - 100 THEN 95
    ELSE 85

\* round(min((raw / max_s) * 100 * mult, 100.0), 2) if max_s else 0.0, centi
MatchPct(raw, max_s, mult) ==
    IF max_s # 0
    THEN RoundHalfEven(Min(raw * mult * 100, 10000 * max_s), max_s)
    ELSE 0

\* The entry recommend_roles appends for one role
RoleResult(role_data, candidate_set, cgpa) ==
    LET flat_req == FlattenRequired(role_data)
        ms == MatchScore(candidate_set, flat_req)
        mult == CgpaMultiplier(cgpa, role_data.min_cgpa)
        nice_to_have == [i \in 1..Len(role_data.nice_to_have) |->
                            Lower(role_data.nice_to_have[i])]
    IN  [role |-> role_data.name,
         match_pct |-> MatchPct(ms.raw, ms.max_s, mult),
         matched_count |-> MatchedCount(flat_req, candidate_set),
         total_required |-> Len(flat_req),
         description |-> "",
         nice_to_have_present |->
             SelectSeq(nice_to_have, LAMBDA n : n \in candidate_set)]

\* The loop over _ROLES.items(): roles without required skills are skipped.
RECURSIVE RoleResults(_, _, _)
RoleResults(cat, candidate_set, cgpa) ==
    IF cat = <<>> THEN <<>>
    ELSE IF FlattenRequired(cat[1]) = <<>>
    THEN RoleResults(Tail(cat), candidate_set, cgpa)
    ELSE <<RoleResult(cat[1], candidate_set, cgpa)>>
            \o RoleResults(Tail(cat), candidate_set, cgpa)

\* results.sort(key=match_pct, reverse=True): stable, descending.
RECURSIVE InsertByMatchPct(_, _)
InsertByMatchPct(sorted, x) ==
    IF sorted = <<>> THEN <<x>>
    ELSE IF sorted[1].match_pct >= x.match_pct
    THEN <<sorted[1]>> \o InsertByMatchPct(Tail(sorted), x)
    ELSE <<x>> \o sorted

RECURSIVE SortByMatchPct(_, _)
SortByMatchPct(sorted, rest) ==
    IF rest = <<>> THEN sorted
    ELSE SortByMatchPct(InsertByMatchPct(sorted, rest[1]), Tail(rest))

\* results[:top_n]
SliceTo(s, top_n) ==
    IF top_n >= 0 THEN SubSeq(s, 1, Min(top_n, Len(s)))
    ELSE SubSeq(s, 1, Max(0, Len(s) + top_n))

\* recommend_roles(candidate_skills, cgpa, top_n) -> list of dicts
recommend_roles(cat, candidate_skills, cgpa, top_n) ==
    LET candidate_set == LowerSet(OrEmpty(candidate_skills))
        results == RoleResults(cat, candidate_set, cgpa)
    IN  SliceTo(SortByMatchPct(<<>>, results), top_n)

\* analyse_role_fit, "Determine primary role": the target role when it is a
\* key of _ROLES, else the first key equal to it in lower case, else the
\* first recommendation ("" without recommendations).
primary_role(cat, target_role, recommendations) ==
    LET first == IF recommendations # <<>> THEN recommendations[1].role ELSE ""
    IN  IF target_role # "" /\ ExactIndex(cat, target_role) # 0 THEN target_role
        ELSE IF target_role # ""
        THEN IF FoldedIndex(cat, target_role) # 0
                /\ cat[FoldedIndex(cat, target_role)].name # ""
             THEN cat[FoldedIndex(cat, target_role)].name
             ELSE first
        ELSE first

\* ------------------------------------------------------------------------
\* role_engine.py: get_skill_gaps and identify_skill_gaps
\* ------------------------------------------------------------------------
\* get_skill_gaps(candidate_skills, role) -> sorted list of skill names
get_skill_gaps(cat, candidate_skills, role) ==
    LET idx == LookupRole(cat, role)
    IN  IF idx = 0 THEN <<>>
        ELSE LET candidate_set == LowerSet(OrEmpty(candidate_skills))
                 flat_req == FlattenRequired(cat[idx])
             IN  SortedNames(FlatKeys(flat_req) \ candidate_set)

\* The labels with "Critical" for the weight 3 only.
WeightLabelExactlyThree(weight) ==
    IF weight = 3 THEN "Critical"
    ELSE IF weight = 2 THEN "Important" ELSE "Recommended"

WeightLabel(weight) ==
    IF weight >= 3 THEN "Critical"
    ELSE IF weight = 2 THEN "Important" ELSE "Recommended"

\* list.sort(key=weight, reverse=True): stable, descending by weight.
RECURSIVE InsertByWeight(_, _)
InsertByWeight(sorted, x) ==
    IF sorted = <<>> THEN <<x>>
    ELSE IF sorted[1].weight >= x.weight
    THEN <<sorted[1]>> \o InsertByWeight(Tail(sorted), x)
    ELSE <<x>> \o sorted

RECURSIVE SortByWeightDesc(_, _)
SortByWeightDesc(sorted, rest) ==
    IF rest = <<>> THEN sorted
    ELSE SortByWeightDesc(InsertByWeight(sorted, rest[1]), Tail(rest))

Reverse(s) == [i \in 1..Len(s) |-> s[Len(s) + 1 - i]]

\* missing.sort(key=lambda x: x["weight"], reverse=True)
SortMissingTiesReversed(missing) == SortByWeightDesc(<<>>, Reverse(missing))

SortMissing(missing) == SortByWeightDesc(<<>>, missing)

\* The loop over flat_req.items(): the missing items in flattening order.
MissingItems(flat, candidate_set) ==
    LET F(i) == [skill |-> flat[i].skill, weight |-> flat[i].weight,
                 label |-> WeightLabel(flat[i].weight)]
    IN  SelectSeq([i \in 1..Len(flat) |-> F(i)],
                  LAMBDA g : g.skill \notin candidate_set)

PresentItems(flat, candidate_set) ==
    LET names == [i \in 1..Len(flat) |-> flat[i].skill]
    IN  SelectSeq(names, LAMBDA s : s \in candidate_set)

\* identify_skill_gaps(role_name, candidate_skills) -> dict
identify_skill_gaps(cat, role_name, candidate_skills) ==
    LET idx == LookupRole(cat, role_name)
    IN  IF idx = 0
        THEN [kind |-> "dict", role |-> role_name, missing_skills |-> <<>>,
              present_skills |-> <<>>, nice_to_have_gaps |-> <<>>,
              gap_count |-> 0, error |-> TRUE]
        ELSE LET candidate_set == LowerSet(OrEmpty(candidate_skills))
                 flat_req == FlattenRequired(cat[idx])
                 missing == SortMissing(MissingItems(flat_req, candidate_set))
                 present == PresentItems(flat_req, candidate_set)
                 nth == [i \in 1..Len(cat[idx].nice_to_have) |->
                            Lower(cat[idx].nice_to_have[i])]
             IN  [kind |-> "dict", role |-> cat[idx].name,
                  missing_skills |-> missing,
                  present_skills |-> SortedNames(Range(present)),
                  nice_to_have_gaps |->
                      SelectSeq(nth, LAMBDA s : s \notin candidate_set),
                  gap_count |-> Len(missing), error |-> FALSE]

\* ------------------------------------------------------------------------
\* Role catalogues (the contents of data/roles.json) and call inputs
\* ------------------------------------------------------------------------
Weights == {1, 2, 3}

GenSkills == {"python", "sql", "SQL"}

\* A sub-group is a JSON object: its keys are distinct.
Groups ==
    {g \in Lists(GenSkills \X Weights, MaxGroup) :
        \A i, j \in 1..Len(g) : i # j => g[i][1] # g[j][1]}

SecondGroups ==
    {<<>>, << <<"sql", 2>> >>, << <<"Python", 1>>, <<"docker", 2>> >>}

BackendRole ==
    Role("Backend Developer",
         << << <<"python", 3>>, <<"docker", 2>>, <<"sql", 1>> >> >>,
         <<"Git">>, 600, 200)

DataRole ==
    Role("Data Scientist",
         << << <<"sql", 1>>, <<"Python", 2>> >>,
            << <<"SQL", 3>>, <<"machine learning", 3>>, <<"git", 1>> >> >>,
         <<"docker">>, 700, 800)

InternRole == Role("Intern", <<>>, <<>>, 600, 5)

TraineeRole == Role("Trainee", << <<>> >>, <<>>, 600, 200)

BlankRole == [Role("Ghost", <<>>, <<>>, 600, 200) EXCEPT !.blank = TRUE]

DevOpsRole ==
    Role("DevOps Engineer",
         << << <<"docker", 3>>, <<"git", 1>>, <<"python", 1>> >> >>,
         <<>>, 600, 200)

\* A role whose weights go beyond 3.
PlatformRole ==
    Role("Platform Engineer",
         << << <<"docker", 5>>, <<"git", 4>>, <<"python", 2>>, <<"sql", 1>> >> >>,
         <<>>, 600, 200)

WideCatalogues == { <<PlatformRole>> }

\* Catalogues in which two roles reach the same coverage.
TieCatalogues == { <<DevOpsRole, BackendRole>>, <<BackendRole, DevOpsRole>> }

FixedCatalogues ==
    { <<>>,
      <<InternRole, TraineeRole>>,
      <<BackendRole, DataRole>>,
      <<DataRole, BackendRole, InternRole>>,
      <<BlankRole, InternRole, BackendRole>> }

GenCatalogues ==
    {<<Role("Gen", <<g1, g2>>, <<>>, 600, 200)>> :
        g1 \in Groups, g2 \in SecondGroups}

Catalogues ==
    FixedCatalogues \cup GenCatalogues \cup TieCatalogues \cup WideCatalogues

CandNames == {"python", "SQL", "git"}

CandLists == PyLists(CandNames, MaxCand)

RoleNames == {"Gen", "GEN", "Backend Developer", "BACKEND DEVELOPER",
              "Data Scientist", "Intern", "Ghost", "Platform Engineer", ""}

\* cgpa and top_n of recommend_roles; min_cgpa is 6.0 or 7.0 in the catalogues.
RolesCgpaGrid == {Absent, Some(0), Some(450), Some(550), Some(650), Some(750),
                  Some(850)}

TopNs == {0 - 1, 0, 1, 2}

Idle == [op |-> "none"]

NoPipeline == [stage |-> "off"]

\* ------------------------------------------------------------------------
\* Calls of the role engine
\* ------------------------------------------------------------------------
InitRole ==
    /\ roles \in Catalogues
    /\ pc = "idle"
    /\ call = Idle
    /\ ret = Idle
    /\ pl = NoPipeline
    /\ OutsideIdle

RecommendRole ==
    /\ pc = "idle"
    /\ \E c \in CandLists :
        /\ call' = [op |-> "recommend_role", candidate_skills |-> c]
        /\ ret' = recommend_role(roles, c)
    /\ pc' = "done"
    /\ UNCHANGED <<roles, pl, outside>>

GetSkillGaps ==
    /\ pc = "idle"
    /\ \E c \in CandLists, r \in RoleNames :
        /\ call' = [op |-> "get_skill_gaps", candidate_skills |-> c, role |-> r]
        /\ ret' = get_skill_gaps(roles, c, r)
    /\ pc' = "done"
    /\ UNCHANGED <<roles, pl, outside>>

IdentifySkillGaps ==
    /\ pc = "idle"
    /\ \E c \in CandLists, r \in RoleNames :
        /\ call' = [op |-> "identify_skill_gaps", candidate_skills |-> c,
                    role |-> r]
        /\ ret' = identify_skill_gaps(roles, r, c)
    /\ pc' = "done"
    /\ UNCHANGED <<roles, pl, outside>>

\* The caller takes the result; the engine keeps no state between calls.
RecommendRoles ==
    /\ pc = "idle"
    /\ \E c \in CandLists, g \in RolesCgpaGrid, n \in TopNs :
        /\ call' = [op |-> "recommend_roles", candidate_skills |-> c,
                    cgpa |-> g, top_n |-> n]
        /\ ret' = recommend_roles(roles, c, g, n)
    /\ pc' = "done"
    /\ UNCHANGED <<roles, pl, outside>>

Return ==
    /\ pc = "done"
    /\ pc' = "idle"
    /\ call' = Idle
    /\ ret' = Idle
    /\ UNCHANGED <<roles, pl, outside>>

\* _flatten_required(role_data) on a role of the catalogue
FlattenRequiredCall ==
    /\ pc = "idle"
    /\ \E i \in 1..Len(roles) :
        /\ call' = [op |-> "_flatten_required", index |-> i]
        /\ ret' = FlattenRequired(roles[i])
    /\ pc' = "done"
    /\ UNCHANGED <<roles, pl, outside>>

NextRole ==
    \/ RecommendRoles
    \/ RecommendRole
    \/ GetSkillGaps
    \/ IdentifySkillGaps
    \/ FlattenRequiredCall
    \/ Return

SpecRole == InitRole /\ [][NextRole]_vars

\* ------------------------------------------------------------------------
\* Properties of the role engine (checked under SpecRole)
\* ------------------------------------------------------------------------
Done(op) == pc = "done" /\ call.op = op

RECURSIVE Concat(_)
Concat(ss) == IF ss = <<>> THEN <<>> ELSE ss[1] \o Concat(Tail(ss))

\* The (skill, weight) items of every sub-group of a role, in visiting order.
AllItems(role_data) ==
    IF role_data.blank THEN <<>> ELSE Concat(role_data.required_skills)

\* The required skills of a role: every skill of some sub-group, lowercased.
RequiredSet(role_data) ==
    {Lower(AllItems(role_data)[i][1]) : i \in 1..Len(AllItems(role_data))}

\* The candidate's skills, compared in lowercase.
CandidateSet(c) ==
    IF c.none THEN {} ELSE {Lower(c.items[i]) : i \in 1..Len(c.items)}

\* The largest weight a skill carries in any sub-group of the role.
MaxWeightOf(role_data, skill) ==
    LET items == AllItems(role_data)
        ws == {items[i][2] : i \in {j \in 1..Len(items) : Lower(items[j][1]) = skill}}
    IN  CHOOSE w \in ws : \A v \in ws : v <= w

\* The place at which flattening first meets a skill.
FirstPosOf(role_data, skill) ==
    LET items == AllItems(role_data)
        ps == {j \in 1..Len(items) : Lower(items[j][1]) = skill}
    IN  CHOOSE p \in ps : \A q \in ps : p <= q

NoDuplicates(s) == \A i, j \in 1..Len(s) : i # j => s[i] # s[j]

\* |x - n/d| <= 1/2: x is n/d rounded to the nearest integer.
Nearest(x, n, d) ==
    /\ 2 * (x * d - n) <= d
    /\ 2 * (n - x * d) <= d

\* C1: recommend_role returns a match ratio r with 0 <= r <= 1 for every
\* catalogue and candidate list, and exactly ("", 0.0) when the candidate
\* list or the catalogue is empty.
C1_RatioInUnitInterval ==
    Done("recommend_role") =>
        /\ 0 <= ret.ratio
        /\ ret.ratio <= 10000
        /\ (Falsy(call.candidate_skills) \/ roles = <<>>)
              => ret = [role |-> "", ratio |-> 0]

\* The case of C1 that fails: candidates are given and every role of a
\* non-empty catalogue flattens to no required skill.
C1_AllRolesEmpty ==
    /\ Done("recommend_role")
    /\ ~Falsy(call.candidate_skills)
    /\ roles # <<>>
    /\ \A i \in 1..Len(roles) : RequiredSet(roles[i]) = {}

\* C5: for every candidate skill set and resolvable role, the gaps returned
\* by get_skill_gaps and by identify_skill_gaps are exactly the role's
\* required skills minus the candidate's (in lowercase), without
\* duplicates, and identify_skill_gaps' present and missing lists partition
\* the required skills.
C5_GapsAreRequiredMinusCandidate ==
    /\ (Done("get_skill_gaps") /\ LookupRole(roles, call.role) # 0) =>
          LET R == roles[LookupRole(roles, call.role)]
          IN  /\ Range(ret) = RequiredSet(R) \ CandidateSet(call.candidate_skills)
              /\ NoDuplicates(ret)
    /\ (Done("identify_skill_gaps") /\ LookupRole(roles, call.role) # 0) =>
          LET R == roles[LookupRole(roles, call.role)]
              C == CandidateSet(call.candidate_skills)
              missing == {ret.missing_skills[i].skill :
                            i \in 1..Len(ret.missing_skills)}
              present == Range(ret.present_skills)
          IN  /\ missing = RequiredSet(R) \ C
              /\ present = RequiredSet(R) \cap C
              /\ missing \cap present = {}
              /\ missing \cup present = RequiredSet(R)
              /\ Len(ret.missing_skills) = Cardinality(missing)
              /\ NoDuplicates(ret.present_skills)
              /\ ret.gap_count = Cardinality(missing)

\* C5's case: a resolvable role, a candidate who holds one required skill
\* under another letter case, and a gap left over.
C5_Witness ==
    /\ Done("get_skill_gaps")
    /\ LookupRole(roles, call.role) # 0
    /\ "SQL" \in Range(OrEmpty(call.candidate_skills))
    /\ "sql" \in RequiredSet(roles[LookupRole(roles, call.role)])
    /\ ret # <<>>

\* The role with every weight of its required skills replaced by w.
WithWeight(R, w) ==
    [R EXCEPT !.required_skills =
        [g \in 1..Len(R.required_skills) |->
            [i \in 1..Len(R.required_skills[g]) |->
                <<R.required_skills[g][i][1], w>>]]]

\* Role k covers no less of the candidate set C than role j / strictly more.
CoversAtLeast(k, j, C) ==
    Cardinality(RequiredSet(roles[k]) \cap C) * Cardinality(RequiredSet(roles[j]))
        >= Cardinality(RequiredSet(roles[j]) \cap C) * Cardinality(RequiredSet(roles[k]))

CoversMore(k, j, C) ==
    Cardinality(RequiredSet(roles[k]) \cap C) * Cardinality(RequiredSet(roles[j]))
        > Cardinality(RequiredSet(roles[j]) \cap C) * Cardinality(RequiredSet(roles[k]))

\* C12: called with a non-empty candidate list on a catalogue in which some
\* role has required skills, recommend_role returns a role whose unweighted
\* coverage (required skills held / required skills) is maximal over the
\* catalogue roles that have required skills, the first such role in
\* catalogue order, with that coverage rounded to 4 places as the ratio;
\* the same role is returned whatever the weights of the required skills.
C12_BestCoverageFirstWins ==
    (/\ Done("recommend_role")
     /\ ~Falsy(call.candidate_skills)
     /\ \E i \in 1..Len(roles) : RequiredSet(roles[i]) # {}) =>
        LET C == CandidateSet(call.candidate_skills)
            rated == {i \in 1..Len(roles) : RequiredSet(roles[i]) # {}}
        IN  /\ \E k \in rated :
                  /\ roles[k].name = ret.role
                  /\ \A j \in rated : CoversAtLeast(k, j, C)
                  /\ \A j \in rated : j < k => CoversMore(k, j, C)
                  /\ Nearest(ret.ratio,
                             10000 * Cardinality(RequiredSet(roles[k]) \cap C),
                             Cardinality(RequiredSet(roles[k])))
            /\ \A w \in Weights :
                  recommend_role([i \in 1..Len(roles) |-> WithWeight(roles[i], w)],
                                 call.candidate_skills).role = ret.role

\* C12's case: two roles tie on coverage 1/3, the first in catalogue order
\* is returned although the second has the larger weighted coverage.
C12_Witness ==
    /\ Done("recommend_role")
    /\ roles = <<DevOpsRole, BackendRole>>
    /\ call.candidate_skills = PyList(<<"python">>)
    /\ ret = [role |-> "DevOps Engineer", ratio |-> 3333]

\* The sum of the role's (largest) weights over a set of its required skills.
RECURSIVE WeightSum(_, _)
WeightSum(R, S) ==
    IF S = {} THEN 0
    ELSE LET x == CHOOSE y \in S : TRUE
         IN  MaxWeightOf(R, x) + WeightSum(R, S \ {x})

\* The catalogue roles that have required skills.
Rated == {i \in 1..Len(roles) : RequiredSet(roles[i]) # {}}

\* 100 x weighted coverage x multiplier, capped at 100, as the fraction
\* PctNum / PctDen of 0.01 point.
PctNum(R, C, m) ==
    Min(WeightSum(R, RequiredSet(R) \cap C) * m * 100,
        10000 * WeightSum(R, RequiredSet(R)))

PctDen(R) == WeightSum(R, RequiredSet(R))

\* The entries are in non-increasing match_pct order.
NonIncreasingPct(l) ==
    \A i, j \in 1..Len(l) : i < j => l[i].match_pct >= l[j].match_pct

\* C13 as stated: recommend_roles returns at most top_n entries in
\* non-increasing match_pct order, each match_pct being
\* min(100, 100 x weighted coverage x m) with m in {0.85, 0.95, 1.0, 1.05}
\* (1.0 when the CGPA is absent), hence in [0,100].
C13_Original ==
    Done("recommend_roles") =>
        /\ call.top_n >= 0 => Len(ret) <= call.top_n
        /\ NonIncreasingPct(ret)
        /\ \A e \in 1..Len(ret) :
              /\ 0 <= ret[e].match_pct /\ ret[e].match_pct <= 10000
              /\ \E k \in Rated, m \in {85, 95, 100, 105} :
                    /\ roles[k].name = ret[e].role
                    /\ call.cgpa.none => m = 100
                    /\ ret[e].match_pct * PctDen(roles[k])
                          = PctNum(roles[k], CandidateSet(call.candidate_skills), m)

\* The multiplier by the CGPA's distance to the role's min_cgpa, hundredths.
MultiplierFor(cgpa, min_cgpa) ==
    IF cgpa.none \/ cgpa.val <= 0 THEN 100
    ELSE IF cgpa.val - min_cgpa >= 150 THEN 105
    ELSE IF cgpa.val - min_cgpa >= 0 THEN 100
    ELSE IF cgpa.val - min_cgpa >= 0 - 100 THEN 95
    ELSE 85

\* C13 amended: for top_n >= 0 recommend_roles returns min(top_n, number of
\* roles with required skills) entries for distinct roles, in
\* non-increasing match_pct order and no entry below an omitted role; each
\* match_pct is min(100, 100 x weighted coverage x m) rounded to 2 decimal
\* places, with m = 1.05 for CGPA >= min_cgpa + 1.5, 1.0 for
\* CGPA >= min_cgpa, 0.95 for CGPA >= min_cgpa - 1.0, 0.85 below, and 1.0
\* when the CGPA is absent or not positive; every match_pct is in [0,100].
C13_RankedRoles ==
    Done("recommend_roles") =>
        LET C == CandidateSet(call.candidate_skills)
            PctOf(k) ==
                RoundHalfEven(PctNum(roles[k], C,
                                     MultiplierFor(call.cgpa, roles[k].min_cgpa)),
                              PctDen(roles[k]))
        IN  /\ call.top_n >= 0 =>
                  Len(ret) = Min(call.top_n, Cardinality(Rated))
            /\ Len(ret) <= Cardinality(Rated)
            /\ NonIncreasingPct(ret)
            /\ \A i, j \in 1..Len(ret) : i # j => ret[i].role # ret[j].role
            /\ \A e \in 1..Len(ret) :
                  /\ 0 <= ret[e].match_pct /\ ret[e].match_pct <= 10000
                  /\ \E k \in Rated :
                        /\ roles[k].name = ret[e].role
                        /\ ret[e].match_pct = PctOf(k)
            /\ \A k \in Rated :
                  (\A e \in 1..Len(ret) : ret[e].role # roles[k].name) =>
                      \A e \in 1..Len(ret) : ret[e].match_pct >= PctOf(k)

\* C13's case: two rated roles, top_n = 1, a CGPA 0.5 below the first
\* role's minimum and 1.5 below the second's; the second role of the
\* catalogue comes out first, with 100 x 3/9 x 0.85 = 28.33.
C13_Witness ==
    /\ Done("recommend_roles")
    /\ roles = <<BackendRole, DataRole>>
    /\ call.candidate_skills = PyList(<<"SQL">>)
    /\ call.cgpa = Some(550)
    /\ call.top_n = 1
    /\ Len(ret) = 1
    /\ ret[1].role = "Data Scientist"
    /\ ret[1].match_pct = 2833

\* C22: _flatten_required maps each lowercased skill of a role to the
\* largest weight it carries in any sub-group, holds exactly the skills of
\* the sub-groups, each once, and is the same mapping in whatever order the
\* sub-groups are visited (the weights of a catalogue are positive).
C22_FlattenKeepsMaxWeight ==
    Done("_flatten_required") =>
        LET R == roles[call.index]
        IN  /\ FlatKeys(ret) = RequiredSet(R)
            /\ \A i, j \in 1..Len(ret) : i # j => ret[i].skill # ret[j].skill
            /\ \A i \in 1..Len(ret) :
                    ret[i].weight = MaxWeightOf(R, ret[i].skill)
            /\ \A o \in Orders(R.required_skills) :
                    Range(FlattenRequired([R EXCEPT !.required_skills = o]))
                        = Range(ret)

\* C22's case: a role whose second sub-group repeats a skill of the first
\* in another letter case and with a larger weight.
C22_Witness ==
    /\ Done("_flatten_required")
    /\ roles[call.index] = DataRole
    /\ ret = <<[skill |-> "sql", weight |-> 3],
               [skill |-> "python", weight |-> 2],
               [skill |-> "machine learning", weight |-> 3],
               [skill |-> "git", weight |-> 1]>>

\* A list of gap skills is in descending weight order, equal weights in
\* flattening order.
ByWeightThenFlattening(R, names) ==
    \A i, j \in 1..Len(names) :
        i < j =>
            \/ MaxWeightOf(R, names[i]) > MaxWeightOf(R, names[j])
            \/ /\ MaxWeightOf(R, names[i]) = MaxWeightOf(R, names[j])
               /\ FirstPosOf(R, names[i]) < FirstPosOf(R, names[j])

MissingNames(d) == [i \in 1..Len(d.missing_skills) |-> d.missing_skills[i].skill]

TableLabel(weight) ==
    CASE weight >= 3 -> "Critical"
      [] weight = 2 -> "Important"
      [] OTHER -> "Recommended"

\* C23: every missing skill reported by identify_skill_gaps carries the
\* weight the role gives it and the label of that weight alone: "Critical"
\* for 3 and more, "Important" for 2, "Recommended" otherwise.
C23_LabelFromWeight ==
    (Done("identify_skill_gaps") /\ LookupRole(roles, call.role) # 0) =>
        \A i \in 1..Len(ret.missing_skills) :
            /\ ret.missing_skills[i].weight =
                  MaxWeightOf(roles[LookupRole(roles, call.role)],
                              ret.missing_skills[i].skill)
            /\ ret.missing_skills[i].label =
                  TableLabel(ret.missing_skills[i].weight)

\* C23's case: the role {python: 3, docker: 2, sql: 1} and a candidate with
\* python and sql: the single gap docker, weight 2, "Important".
C23_Witness ==
    /\ Done("identify_skill_gaps")
    /\ LookupRole(roles, call.role) # 0
    /\ roles[LookupRole(roles, call.role)] = BackendRole
    /\ CandidateSet(call.candidate_skills) = {"python", "sql"}
    /\ ret.missing_skills =
          <<[skill |-> "docker", weight |-> 2, label |-> "Important"]>>

\* ------------------------------------------------------------------------
\* skill_engine.py: the skill patterns and extract_resume_skills
\* ------------------------------------------------------------------------
\* A text is the sequence of its characters.  "G" is an upper-case letter,
\* "long_s" the letter U+017F (LATIN SMALL LETTER LONG S), which is its own
\* lower case and which case-insensitive matching identifies with "s".
Alphabet == {"g", "o", "s", " ", "G", "long_s"}

\* The characters of each vocabulary skill.
SkillChars(skill) ==
    CASE skill = "g o" -> <<"g", " ", "o">>
      [] skill = "go" -> <<"g", "o">>
      [] skill = "g" -> <<"g">>
      [] skill = "s" -> <<"s">>

\* _ALL_SKILLS: sorted(set, key=len, reverse=True).  The sort is stable over
\* the iteration order of a set of strings, which differs between runs, so
\* skills of equal length come in either order; <<>> is the vocabulary that
\* failed to load.
Vocabularies ==
    { <<"g o", "go", "g", "s">>, <<"g o", "go", "s", "g">>, <<>> }

\* str.lower(), character by character
CharLower(c) == IF c = "G" THEN "g" ELSE c

TextLower(t) == [i \in 1..Len(t) |-> CharLower(t[i])]

\* re.IGNORECASE: the letter a character stands for when case is ignored
CaseFold(c) ==
    CASE c = "G" -> "g"
      [] c = "long_s" -> "s"
      [] OTHER -> c

\* a literal character of the escaped skill against a text character
LiteralMatches(p, c) == CaseFold(p) = CaseFold(c)

\* [a-z0-9] under re.IGNORECASE
ClassAlnum(c) == CaseFold(c) \in {"g", "o", "s"}

\* pattern.search(text): (?<![a-z0-9]) skill (?![a-z0-9]) at some position
PatternSearch(skill, t) ==
    LET k == SkillChars(skill)
    IN  \E i \in 1..(Len(t) - Len(k) + 1) :
            /\ \A j \in 1..Len(k) : LiteralMatches(k[j], t[i + j - 1])
            /\ i > 1 => ~ClassAlnum(t[i - 1])
            /\ i + Len(k) <= Len(t) => ~ClassAlnum(t[i + Len(k)])

\* The loop body that drops a skill contained in a skill found before it.
ExtractStepSuppressing(found, skill, t) ==
    IF /\ PatternSearch(skill, t)
       /\ ~\E f \in found :
             \E i \in 1..(Len(SkillChars(f)) - Len(SkillChars(skill)) + 1) :
                SubSeq(SkillChars(f), i, i + Len(SkillChars(skill)) - 1)
                    = SkillChars(skill)
    THEN found \cup {skill} ELSE found

\* if pattern.search(text_lower): found.add(skill)
ExtractStep(found, skill, t) ==
    IF PatternSearch(skill, t) THEN found \cup {skill} ELSE found

RECURSIVE ExtractLoop(_, _, _)
ExtractLoop(found, patterns, t) ==
    IF patterns = <<>> THEN found
    ELSE ExtractLoop(ExtractStep(found, patterns[1], t), Tail(patterns), t)

\* extract_resume_skills(text) with the module's _SKILL_PATTERNS
extract_resume_skills(patterns, text) ==
    IF Falsy(text) THEN <<>>
    ELSE SortedNames(ExtractLoop({}, patterns, TextLower(text.items)))

\* ------------------------------------------------------------------------
\* skill_engine.py: merge_candidate_skills and compute_authenticity
\* ------------------------------------------------------------------------
\* The union that lowercases the resume skills only.
MergeLowersResumeOnly(resume_skills, github_skills) ==
    SortedNames(LowerSet(OrEmpty(resume_skills))
                \cup LowerSetRaw(OrEmpty(github_skills)))

\* merge_candidate_skills(resume_skills, github_skills) -> sorted union
merge_candidate_skills(resume_skills, github_skills) ==
    SortedNames(LowerSet(OrEmpty(resume_skills))
                \cup LowerSet(OrEmpty(github_skills)))

\* len(verified) / len(resume_set), rounded to 4 places (ratio4).
AuthRatioLenList(resume_skills, resume_set, verified) ==
    RoundHalfEven(Cardinality(verified) * 10000, Len(resume_skills.items))

AuthRatio(resume_skills, resume_set, verified) ==
    RoundHalfEven(Cardinality(verified) * 10000, Cardinality(resume_set))

\* compute_authenticity(resume_skills, github_skills) -> ratio4
compute_authenticity(resume_skills, github_skills) ==
    IF Falsy(resume_skills) THEN 0
    ELSE IF Falsy(github_skills) THEN 0
    ELSE LET resume_set == LowerSet(resume_skills.items)
             github_set == LowerSet(github_skills.items)
             verified == resume_set \cap github_set
         IN  AuthRatio(resume_skills, resume_set, verified)

\* ------------------------------------------------------------------------
\* role_engine.py: compute_readiness
\* ------------------------------------------------------------------------
\* Normalised signals are held in units of 1/30000, the least common
\* multiple of the input grids (1/10000, 1/300, 1/10, 1/1000).

\* min(1.0, max(0.0, x) / cap), with 30000/cap = per
CountNormAbs(x, per) == Min(30000, (IF x < 0 THEN 0 - x ELSE x) * per)

CountNormNoFloor(x, per) == Min(30000, x * per)

CountNorm(x, per) == Min(30000, Max(0, x) * per)

\* max(0.0, min(1.0, x)) for a ratio4 input
ClampRatio(x) == Max(0, Min(30000, x * 3))

\* raw * 100, the weighted sum in points (units of 1/30000 point)
ReadinessRawLowMatch(match_score, authenticity, leetcode_norm, repo_norm, cgpa_norm) ==
    30 * match_score + 20 * authenticity + 20 * leetcode_norm
        + 10 * repo_norm + 10 * cgpa_norm

ReadinessRaw(match_score, authenticity, leetcode_norm, repo_norm, cgpa_norm) ==
    40 * match_score + 20 * authenticity + 20 * leetcode_norm
        + 10 * repo_norm + 10 * cgpa_norm

\* compute_readiness(match_score, authenticity, leetcode_total, repo_count,
\* cgpa) -> centi; match_score and authenticity in ratio4, cgpa in 0.01.
compute_readiness(match_score, authenticity, leetcode_total, repo_count, cgpa) ==
    LET leetcode_norm == CountNorm(leetcode_total, 100)
        repo_norm == CountNorm(repo_count, 3000)
        cgpa_norm == CountNorm(cgpa, 30)
        raw100 == ReadinessRaw(ClampRatio(match_score), ClampRatio(authenticity),
                               leetcode_norm, repo_norm, cgpa_norm)
    IN  RoundHalfEven(Max(0, Min(100 * 30000, raw100)), 300)

\* ------------------------------------------------------------------------
\* Calls of the scoring functions
\* ------------------------------------------------------------------------
MaxAuth == 3

AuthNames == {"python", "Python", "sql", "docker"}

AuthLists == PyLists(AuthNames, MaxAuth)

MatchGrid == {0 - 5000, 0, 3333, 5000, 6667, 10000, 15000}

AuthGrid == {0 - 10000, 0, 3333, 5000, 10000, 12000}

LeetcodeGrid == {0 - 10, 0, 1, 150, 300, 600}

RepoGrid == {0 - 5, 0, 5, 10, 20}

CgpaGrid == {0 - 200, 0, 500, 850, 1000, 1200}

InitScore ==
    /\ roles = <<>>
    /\ pc = "idle"
    /\ call = Idle
    /\ ret = Idle
    /\ pl = NoPipeline
    /\ OutsideIdle

ComputeAuthenticity ==
    /\ pc = "idle"
    /\ \E r \in AuthLists, g \in AuthLists :
        /\ call' = [op |-> "compute_authenticity", resume_skills |-> r,
                    github_skills |-> g]
        /\ ret' = compute_authenticity(r, g)
    /\ pc' = "done"
    /\ UNCHANGED <<roles, pl, outside>>

ComputeReadiness ==
    /\ pc = "idle"
    /\ \E m \in MatchGrid, a \in AuthGrid, l \in LeetcodeGrid,
          r \in RepoGrid, c \in CgpaGrid :
        /\ call' = [op |-> "compute_readiness", match_score |-> m,
                    authenticity |-> a, leetcode_total |-> l,
                    repo_count |-> r, cgpa |-> c]
        /\ ret' = compute_readiness(m, a, l, r, c)
    /\ pc' = "done"
    /\ UNCHANGED <<roles, pl, outside>>

MaxMerge == 2

\* Skill strings as the two sources may spell them: another letter case,
\* surrounding whitespace.
MergeNames == {"python", "Python", " python ", "sql"}

MergeLists == PyLists(MergeNames, MaxMerge)

MergeCandidateSkills ==
    /\ pc = "idle"
    /\ \E r \in MergeLists, g \in MergeLists :
        /\ call' = [op |-> "merge_candidate_skills", resume_skills |-> r,
                    github_skills |-> g]
        /\ ret' = merge_candidate_skills(r, g)
    /\ pc' = "done"
    /\ UNCHANGED <<roles, pl, outside>>

NextScore ==
    \/ ComputeAuthenticity
    \/ ComputeReadiness
    \/ MergeCandidateSkills
    \/ Return

SpecScore == InitScore /\ [][NextScore]_vars

\* ------------------------------------------------------------------------
\* Properties of the scoring functions (checked under SpecScore)
\* ------------------------------------------------------------------------
\* C4 as stated: compute_authenticity(R, G) equals |R' \cap G'| / |R'|, lies
\* in [0,1], is 0.0 when R or G is empty or None, and (for a non-empty
\* resume) is 1.0 exactly when every resume skill is in G.
C4_Original ==
    Done("compute_authenticity") =>
        LET Rs == CandidateSet(call.resume_skills)
            Gs == CandidateSet(call.github_skills)
        IN  /\ 0 <= ret /\ ret <= 10000
            /\ (Falsy(call.resume_skills) \/ Falsy(call.github_skills)) => ret = 0
            /\ Rs # {} => ret * Cardinality(Rs) = 10000 * Cardinality(Rs \cap Gs)
            /\ Rs # {} => (ret = 10000 <=> Rs \subseteq Gs)

\* C4 amended: for non-empty R and G, compute_authenticity(R, G) is
\* |R' \cap G'| / |R'| rounded to 4 decimal places; the result lies in
\* [0,1], is 0.0 when R or G is empty or None, and for a non-empty R of
\* fewer than 20000 distinct skills is 1.0 exactly when every resume skill
\* is in G.
C4_Authenticity ==
    Done("compute_authenticity") =>
        LET Rs == CandidateSet(call.resume_skills)
            Gs == CandidateSet(call.github_skills)
        IN  /\ 0 <= ret /\ ret <= 10000
            /\ (Falsy(call.resume_skills) \/ Falsy(call.github_skills)) => ret = 0
            /\ (Rs # {} /\ Gs # {}) =>
                  Nearest(ret, 10000 * Cardinality(Rs \cap Gs), Cardinality(Rs))
            /\ (Rs # {} /\ Cardinality(Rs) < 20000) =>
                  (ret = 10000 <=> Rs \subseteq Gs)

\* C4's case: three distinct resume skills, exactly one of them corroborated,
\* and that one under another letter case; 1/3 comes back as 0.3333.
C4_Witness ==
    /\ Done("compute_authenticity")
    /\ Cardinality(CandidateSet(call.resume_skills)) = 3
    /\ Range(OrEmpty(call.resume_skills)) \cap Range(OrEmpty(call.github_skills)) = {}
    /\ ret = 3333

ReadinessOf(c) ==
    compute_readiness(c.match_score, c.authenticity, c.leetcode_total,
                      c.repo_count, c.cgpa)

\* C7: compute_readiness returns a value in [0,100] for all inputs; all-zero
\* inputs give exactly 0.0, and match=1, auth=1, activity=300, repos=10,
\* cgpa=10 give exactly 100.0.
C7_ReadinessRange ==
    Done("compute_readiness") =>
        /\ 0 <= ret /\ ret <= 10000
        /\ (/\ call.match_score = 0 /\ call.authenticity = 0
            /\ call.leetcode_total = 0 /\ call.repo_count = 0
            /\ call.cgpa = 0) => ret = 0
        /\ (/\ call.match_score = 10000 /\ call.authenticity = 10000
            /\ call.leetcode_total = 300 /\ call.repo_count = 10
            /\ call.cgpa = 1000) => ret = 10000

\* C7's case: the all-maximum inputs.
C7_Witness ==
    /\ Done("compute_readiness")
    /\ call.match_score = 10000 /\ call.authenticity = 10000
    /\ call.leetcode_total = 300 /\ call.repo_count = 10 /\ call.cgpa = 1000
    /\ ret = 10000

\* C8: compute_readiness is non-decreasing in each of its five inputs with
\* the other four held fixed, negative and over-cap values included.
C8_ReadinessMonotone ==
    Done("compute_readiness") =>
        /\ \A m \in MatchGrid : m >= call.match_score =>
              ReadinessOf([call EXCEPT !.match_score = m]) >= ret
        /\ \A a \in AuthGrid : a >= call.authenticity =>
              ReadinessOf([call EXCEPT !.authenticity = a]) >= ret
        /\ \A l \in LeetcodeGrid : l >= call.leetcode_total =>
              ReadinessOf([call EXCEPT !.leetcode_total = l]) >= ret
        /\ \A r \in RepoGrid : r >= call.repo_count =>
              ReadinessOf([call EXCEPT !.repo_count = r]) >= ret
        /\ \A c \in CgpaGrid : c >= call.cgpa =>
              ReadinessOf([call EXCEPT !.cgpa = c]) >= ret

\* C8's case: a call below the floor in one input and strictly below a
\* neighbour's score in another.
C8_Witness ==
    /\ Done("compute_readiness")
    /\ call.leetcode_total < 0
    /\ call.cgpa = 500
    /\ ReadinessOf([call EXCEPT !.cgpa = 1200]) > ret
    /\ ReadinessOf([call EXCEPT !.leetcode_total = 0]) = ret

\* The composite of the specification, in units of 1/30000 point: every
\* negative input replaced by 0, every normalised signal capped at 1.
NonNeg(x) == IF x < 0 THEN 0 ELSE x

CompositeOf(c) ==
    40 * Min(30000, 3 * NonNeg(c.match_score))
    + 20 * Min(30000, 3 * NonNeg(c.authenticity))
    + 20 * Min(30000, 100 * NonNeg(c.leetcode_total))
    + 10 * Min(30000, 3000 * NonNeg(c.repo_count))
    + 10 * Min(30000, 30 * NonNeg(c.cgpa))

\* C9 as stated: compute_readiness equals 100 x (0.40 m + 0.20 a
\* + 0.20 min(1, activity/300) + 0.10 min(1, repos/10) + 0.10 min(1, cgpa/10)),
\* negative inputs counted as 0.
C9_Original ==
    Done("compute_readiness") => ret * 300 = CompositeOf(call)

\* C9 amended: compute_readiness equals that composite rounded to 2 decimal
\* places; a negative input gives the same score as that input set to 0;
\* (0.5, 0.5, 150, 5, 5) gives 50.0 and activity 600 alone gives 20.0.
C9_ReadinessFormula ==
    Done("compute_readiness") =>
        /\ Nearest(ret, CompositeOf(call), 300)
        /\ ret = ReadinessOf([match_score |-> NonNeg(call.match_score),
                              authenticity |-> NonNeg(call.authenticity),
                              leetcode_total |-> NonNeg(call.leetcode_total),
                              repo_count |-> NonNeg(call.repo_count),
                              cgpa |-> NonNeg(call.cgpa)])
        /\ (/\ call.match_score = 5000 /\ call.authenticity = 5000
            /\ call.leetcode_total = 150 /\ call.repo_count = 5
            /\ call.cgpa = 500) => ret = 5000
        /\ (/\ call.match_score = 0 /\ call.authenticity = 0
            /\ call.leetcode_total = 600 /\ call.repo_count = 0
            /\ call.cgpa = 0) => ret = 2000

\* C9's case: negative inputs beside an activity of 1, whose 0.0667 points
\* come back as 0.07.
C9_Witness ==
    /\ Done("compute_readiness")
    /\ call.match_score < 0 /\ call.repo_count < 0
    /\ call.leetcode_total = 1
    /\ ret = 7

\* C17: merge_candidate_skills(a, b) equals merge_candidate_skills(b, a);
\* merge_candidate_skills(a, a) is, as a set, the lowercased skills of a;
\* this for all lists a and b, empty and None included, and the result never
\* holds a skill twice.
C17_MergeCommutativeIdempotent ==
    Done("merge_candidate_skills") =>
        /\ ret = merge_candidate_skills(call.github_skills, call.resume_skills)
        /\ NoDuplicates(ret)
        /\ call.resume_skills = call.github_skills =>
              Range(ret) = LowerSet(OrEmpty(call.resume_skills))

\* C17's case: two lists in different letter case and order, sharing a skill.
C17_Witness ==
    /\ Done("merge_candidate_skills")
    /\ call.resume_skills = PyList(<<"sql", "Python">>)
    /\ call.github_skills = PyList(<<"python">>)
    /\ ret = <<"python", "sql">>

\* C18: the merged set is the set of the lowercased and trimmed input
\* skills, so that inputs differing only in letter case or in surrounding
\* whitespace give one entry.
C18_MergeTrims ==
    Done("merge_candidate_skills") =>
        Range(ret) =
            {Strip(Lower(x)) : x \in Range(OrEmpty(call.resume_skills))
                                     \cup Range(OrEmpty(call.github_skills))}

\* C18's case: the same skill with and without surrounding whitespace gives
\* two entries.
C18_UntrimmedEntry ==
    /\ Done("merge_candidate_skills")
    /\ call.resume_skills = PyList(<<" python ">>)
    /\ call.github_skills = PyList(<<"python">>)
    /\ ret = <<" python ", "python">>

\* ------------------------------------------------------------------------
\* role_engine.py: compute_readiness_full
\* ------------------------------------------------------------------------
\* dict.get(key, default) on an optional field, default 0
OptGet(o) == IF o.none THEN 0 ELSE o.val

\* lc_activity * 100 * dsa_weight * (0.20 / max(dsa_weight, 0.01)), capped at
\* 20 points; in units of 0.001 point.  The division is exact: the divisor
\* is dsa_weight itself or 0.01.
DsaComponent(lc_activity, dsa_weight) ==
    Min((lc_activity * dsa_weight * 200) \div Max(dsa_weight, 10), 20000)

\* The CGPA component in units of 0.001 point.
CgpaComponent(cgpa, min_cgpa) ==
    IF ~cgpa.none /\ cgpa.val # 0 /\ cgpa.val > 0
    THEN IF cgpa.val < min_cgpa
         THEN 7 * Min(cgpa.val, 1000)
         ELSE 10 * Min(cgpa.val, 1000)
    ELSE 5000

Grade(total) ==
    IF total >= 8000 THEN "A"
    ELSE IF total >= 6500 THEN "B"
    ELSE IF total >= 5000 THEN "C"
    ELSE IF total >= 3500 THEN "D" ELSE "F"

\* compute_readiness_full(role_name, candidate_skills, authenticity,
\* leetcode_data, cgpa) -> dict; scores in centi.
compute_readiness_full(cat, role_name, candidate_skills, authenticity, leetcode_data, cgpa) ==
    LET idx == LookupRole(cat, role_name)
    IN  IF idx = 0
        THEN [role |-> role_name, readiness_score |-> 0, components |-> <<>>,
              grade |-> "N/A", error |-> TRUE]
        ELSE LET candidate_set == LowerSet(OrEmpty(candidate_skills))
                 flat_req == FlattenRequired(cat[idx])
                 ms == MatchScore(candidate_set, flat_req)
                 den == IF ms.max_s # 0 THEN ms.max_s ELSE 1
                 \* skill_component = raw / max_s * 100 * 0.50, as a fraction
                 \* skill_num / den of 0.001 point
                 skill_num == IF ms.max_s # 0 THEN 50000 * ms.raw ELSE 0
                 auth_milli == 2 * OptGet(authenticity)
                 dsa_milli == DsaComponent(OptGet(leetcode_data),
                                           cat[idx].dsa_weight)
                 cgpa_milli == CgpaComponent(cgpa, cat[idx].min_cgpa)
                 total == Min(RoundHalfEven(
                                 skill_num + den * (auth_milli + dsa_milli
                                                    + cgpa_milli),
                                 10 * den),
                              10000)
             IN  [role |-> cat[idx].name,
                  readiness_score |-> total,
                  components |->
                      [skill_match |-> RoundHalfEven(skill_num, 10 * den),
                       authenticity |-> RoundHalfEven(auth_milli, 10),
                       dsa_leetcode |-> RoundHalfEven(dsa_milli, 10),
                       cgpa |-> RoundHalfEven(cgpa_milli, 10)],
                  grade |-> Grade(total), error |-> FALSE]

\* ------------------------------------------------------------------------
\* Calls of compute_readiness_full
\* ------------------------------------------------------------------------
FullRoleNames == {"Backend Developer", "data scientist", "Intern", "Ghost"}

FullCandLists == {PyNone, PyList(<<"Python", "sql">>), PyList(<<"git">>)}

AggregateGrid == {Absent, Some(0 - 2000), Some(0), Some(5000), Some(10000)}

ActivityGrid == {Absent, Some(0 - 50), Some(0), Some(25), Some(50), Some(100),
                 Some(150)}

FullCgpaGrid == {Absent, Some(0 - 100), Some(0), Some(500), Some(650),
                 Some(850), Some(1200)}

InitFull ==
    /\ roles \in FixedCatalogues
    /\ pc = "idle"
    /\ call = Idle
    /\ ret = Idle
    /\ pl = NoPipeline
    /\ OutsideIdle

ComputeReadinessFull ==
    /\ pc = "idle"
    /\ \E r \in FullRoleNames, c \in FullCandLists, a \in AggregateGrid,
          l \in ActivityGrid, g \in FullCgpaGrid :
        /\ call' = [op |-> "compute_readiness_full", role |-> r,
                    candidate_skills |-> c, authenticity |-> a,
                    leetcode_data |-> l, cgpa |-> g]
        /\ ret' = compute_readiness_full(roles, r, c, a, l, g)
    /\ pc' = "done"
    /\ UNCHANGED <<roles, pl, outside>>

NextFull == ComputeReadinessFull \/ Return

SpecFull == InitFull /\ [][NextFull]_vars

\* The three operations that look a role up by name, called on the same
\* catalogues.
NextLookup ==
    \/ GetSkillGaps
    \/ IdentifySkillGaps
    \/ ComputeReadinessFull
    \/ Return

SpecLookup == InitFull /\ [][NextLookup]_vars

\* No role of the catalogue has this name, in any letter case.
NoRoleNamed(role) == \A i \in 1..Len(roles) : Lower(roles[i].name) # Lower(role)

\* C20: for a role name that matches no role of the catalogue, exactly or
\* case-insensitively (the empty catalogue included), get_skill_gaps returns
\* [], identify_skill_gaps returns empty lists, gap_count 0 and the error
\* entry, compute_readiness_full returns readiness_score 0.0 and the error
\* entry; each of the calls returns.
C20_UnknownRoleDefaults ==
    (pc = "done" /\ call.op # "none" /\ NoRoleNamed(call.role)) =>
        CASE call.op = "get_skill_gaps" -> ret = <<>>
          [] call.op = "identify_skill_gaps" ->
                /\ ret.missing_skills = <<>>
                /\ ret.present_skills = <<>>
                /\ ret.nice_to_have_gaps = <<>>
                /\ ret.gap_count = 0
                /\ ret.error
                /\ ret.role = call.role
          [] call.op = "compute_readiness_full" ->
                /\ ret.readiness_score = 0
                /\ ret.components = <<>>
                /\ ret.error
                /\ ret.role = call.role

\* C20's case: the detailed readiness of a role the catalogue does not
\* hold, for a candidate with skills and positive signals.
C20_Witness ==
    /\ Done("compute_readiness_full")
    /\ roles = <<BackendRole, DataRole>>
    /\ call.role = "Ghost"
    /\ call.candidate_skills = PyList(<<"Python", "sql">>)
    /\ call.authenticity = Some(10000)
    /\ call.cgpa = Some(850)
    /\ ret.readiness_score = 0
    /\ ret.error

\* C10: in compute_readiness_full the DSA component is reweighted by the
\* role's dsa_weight: for the same activity score (positive and below the
\* cap) a role with a larger dsa_weight receives a larger DSA component,
\* and the component never exceeds 20 points.
C10_DsaReweighted ==
    (/\ Done("compute_readiness_full")
     /\ ~ret.error
     /\ ~call.leetcode_data.none
     /\ call.leetcode_data.val > 0
     /\ call.leetcode_data.val < 100) =>
        /\ ret.components.dsa_leetcode <= 2000
        /\ \A j \in 1..Len(roles) :
              (/\ ~roles[j].blank
               /\ roles[j].dsa_weight
                    > roles[LookupRole(roles, call.role)].dsa_weight) =>
                  compute_readiness_full(roles, roles[j].name,
                      call.candidate_skills, call.authenticity,
                      call.leetcode_data, call.cgpa).components.dsa_leetcode
                    > ret.components.dsa_leetcode

\* The case of C10 that fails: two roles of the catalogue with dsa_weight 0.2
\* and 0.8 and an activity score of 0.5.
C10_TwoWeights ==
    /\ Done("compute_readiness_full")
    /\ ~ret.error
    /\ call.leetcode_data = Some(50)
    /\ roles[LookupRole(roles, call.role)].dsa_weight = 200
    /\ \E j \in 1..Len(roles) : roles[j].dsa_weight = 800
    /\ ret.components.dsa_leetcode = 1000

\* C11: for every resolvable role and every candidate skill set,
\* authenticity aggregate, activity score and CGPA (absent, negative and
\* over-range values included) compute_readiness_full returns a
\* readiness_score in [0,100] and no reported component is negative.
C11_FullScoreRange ==
    (Done("compute_readiness_full") /\ ~ret.error) =>
        /\ 0 <= ret.readiness_score
        /\ ret.readiness_score <= 10000
        /\ ret.components.skill_match >= 0
        /\ ret.components.authenticity >= 0
        /\ ret.components.dsa_leetcode >= 0
        /\ ret.components.cgpa >= 0

\* The case of C11 that fails: a resolvable role and a negative
\* authenticity aggregate or activity score.
C11_NegativeSignal ==
    /\ Done("compute_readiness_full")
    /\ ~ret.error
    /\ \/ (~call.authenticity.none /\ call.authenticity.val < 0)
       \/ (~call.leetcode_data.none /\ call.leetcode_data.val < 0)

\* ------------------------------------------------------------------------
\* roadmap_engine.py
\* ------------------------------------------------------------------------
\* _RESOURCES[skill]["hours"] for the skills of the model that are in the
\* resource library; 0 marks a skill that is not in it.
LibraryHours(skill) ==
    CASE skill = "python" -> 40
      [] skill = "docker" -> 20
      [] skill = "sql" -> 20
      [] skill = "git" -> 10
      [] skill = "machine learning" -> 80
      [] OTHER -> 0

\* entry.get("hours", 20), the entry being the library's or the generated
\* default of 20 hours
EntryHours(skill) ==
    IF LibraryHours(skill) # 0 THEN LibraryHours(skill) ELSE 20

\* The table with its hour rows read before its weight rows.
AssignPhaseHoursFirst(weight, estimated_hours) ==
    IF estimated_hours <= 15 THEN "short-term"
    ELSE IF estimated_hours <= 60 THEN "medium-term"
    ELSE IF weight >= 3 /\ estimated_hours <= 25 THEN "short-term"
    ELSE IF weight >= 3 THEN "medium-term"
    ELSE "long-term"

\* _assign_phase(weight, estimated_hours)
AssignPhase(weight, estimated_hours) ==
    IF weight >= 3 /\ estimated_hours <= 25 THEN "short-term"
    ELSE IF weight >= 3 THEN "medium-term"
    ELSE IF estimated_hours <= 15 THEN "short-term"
    ELSE IF estimated_hours <= 60 THEN "medium-term"
    ELSE "long-term"

PhaseNames == {"short-term", "medium-term", "long-term"}

\* phases[p].sort(key=lambda x: (-x["weight"], x["hours"])): stable.
PhaseKeyLeq(a, b) ==
    \/ a.weight > b.weight
    \/ (a.weight = b.weight /\ a.hours <= b.hours)

RECURSIVE InsertByPhaseKey(_, _)
InsertByPhaseKey(sorted, x) ==
    IF sorted = <<>> THEN <<x>>
    ELSE IF PhaseKeyLeq(sorted[1], x)
    THEN <<sorted[1]>> \o InsertByPhaseKey(Tail(sorted), x)
    ELSE <<x>> \o sorted

RECURSIVE SortByPhaseKey(_, _)
SortByPhaseKey(sorted, rest) ==
    IF rest = <<>> THEN sorted
    ELSE SortByPhaseKey(InsertByPhaseKey(sorted, rest[1]), Tail(rest))

\* The loop without its `if skill in lc_skills: continue`.
RoadmapItemsNoSkip(missing_skills, lc_skills) ==
    [i \in 1..Len(missing_skills) |->
        [skill |-> missing_skills[i].skill, priority |-> missing_skills[i].label,
         weight |-> missing_skills[i].weight,
         hours |-> EntryHours(missing_skills[i].skill),
         phase |-> AssignPhase(missing_skills[i].weight,
                               EntryHours(missing_skills[i].skill))]]

\* The loop over missing_skills: the roadmap items in gap order, the skills
\* already evidenced by lc_skills skipped.
RoadmapItems(missing_skills, lc_skills) ==
    LET kept == SelectSeq(missing_skills, LAMBDA g : g.skill \notin lc_skills)
    IN  [i \in 1..Len(kept) |->
            [skill |-> kept[i].skill, priority |-> kept[i].label,
             weight |-> kept[i].weight, hours |-> EntryHours(kept[i].skill),
             phase |-> AssignPhase(kept[i].weight, EntryHours(kept[i].skill))]]

RECURSIVE SumHours(_)
SumHours(items) ==
    IF items = <<>> THEN 0 ELSE items[1].hours + SumHours(Tail(items))

\* generate_roadmap(skill_gaps, candidate_skills, role_name, leetcode_data).
\* skill_gaps is used as a dict (skill_gaps.get): given a list, the first
\* statement raises AttributeError.  candidate_skills is read into a set that
\* nothing uses.  lc_skills is set(leetcode_data["dsa_skills"]).
generate_roadmap(skill_gaps, role_name, lc_skills) ==
    IF skill_gaps.kind # "dict" THEN [kind |-> "raise", raised |-> TRUE]
    ELSE LET items == RoadmapItems(skill_gaps.missing_skills, lc_skills)
             phases == [p \in PhaseNames |->
                          SortByPhaseKey(<<>>,
                              SelectSeq(items, LAMBDA it : it.phase = p))]
             nth == SubSeq(skill_gaps.nice_to_have_gaps, 1,
                           Min(10, Len(skill_gaps.nice_to_have_gaps)))
         IN  [kind |-> "dict", raised |-> FALSE, role |-> role_name,
              phases |-> phases,
              total_items |-> Len(phases["short-term"])
                              + Len(phases["medium-term"])
                              + Len(phases["long-term"]),
              total_hours |-> SumHours(items),
              nice_to_have |->
                  [i \in 1..Len(nth) |->
                      [skill |-> nth[i], hours |-> EntryHours(nth[i])]]]

\* ------------------------------------------------------------------------
\* Calls of the roadmap engine
\* ------------------------------------------------------------------------
MaxGaps == 3

PhaseWeights == 1..4

PhaseHours == {0, 10, 15, 16, 20, 25, 26, 40, 60, 61, 80}

\* Gap skills: three of the resource library (10, 40 and 80 hours) and one
\* that is not in it.
GapSkills == {"git", "python", "machine learning", "cobol"}

GapItems ==
    {[skill |-> k, weight |-> w, label |-> WeightLabel(w)] :
        k \in GapSkills, w \in Weights}

\* missing_skills as identify_skill_gaps returns it: no skill twice.
GapLists ==
    {l \in Lists(GapItems, MaxGaps) :
        \A i, j \in 1..Len(l) : i # j => l[i].skill # l[j].skill}

\* leetcode_data["dsa_skills"]
HintSets == SUBSET {"git", "cobol", "Python"}

NthGapLists == {<<>>, <<"docker", "go">>}

GapDict(missing, nth) ==
    [kind |-> "dict", role |-> "Backend Developer", missing_skills |-> missing,
     present_skills |-> <<>>, nice_to_have_gaps |-> nth,
     gap_count |-> Len(missing), error |-> FALSE]

InitRoadmap ==
    /\ roles = <<>>
    /\ pc = "idle"
    /\ call = Idle
    /\ ret = Idle
    /\ pl = NoPipeline
    /\ OutsideIdle

AssignPhaseCall ==
    /\ pc = "idle"
    /\ \E w \in PhaseWeights, h \in PhaseHours :
        /\ call' = [op |-> "_assign_phase", weight |-> w, estimated_hours |-> h]
        /\ ret' = AssignPhase(w, h)
    /\ pc' = "done"
    /\ UNCHANGED <<roles, pl, outside>>

GenerateRoadmap ==
    /\ pc = "idle"
    /\ \E m \in GapLists, n \in NthGapLists, lc \in HintSets :
        /\ call' = [op |-> "generate_roadmap", skill_gaps |-> GapDict(m, n),
                    role_name |-> "Backend Developer", lc_skills |-> lc]
        /\ ret' = generate_roadmap(GapDict(m, n), "Backend Developer", lc)
    /\ pc' = "done"
    /\ UNCHANGED <<roles, pl, outside>>

NextRoadmap == AssignPhaseCall \/ GenerateRoadmap \/ Return

SpecRoadmap == InitRoadmap /\ [][NextRoadmap]_vars

\* ------------------------------------------------------------------------
\* Properties of the roadmap engine (checked under SpecRoadmap)
\* ------------------------------------------------------------------------
\* The decision table read row by row, each row with the negation of the
\* rows above it.
TablePhase(weight, hours) ==
    CASE weight >= 3 /\ hours <= 25 -> "short-term"
      [] weight >= 3 /\ hours > 25 -> "medium-term"
      [] weight < 3 /\ hours <= 15 -> "short-term"
      [] weight < 3 /\ hours > 15 /\ hours <= 60 -> "medium-term"
      [] weight < 3 /\ hours > 60 -> "long-term"

\* All items of a plan, phase after phase.
PlanItems(plan) ==
    plan.phases["short-term"] \o plan.phases["medium-term"]
        \o plan.phases["long-term"]

C15_RoadmapCoversUnhinted ==
    Done("generate_roadmap") =>
        LET gaps == call.skill_gaps.missing_skills
            placed == PlanItems(ret)
        IN  /\ \A g \in 1..Len(gaps) :
                  Cardinality({i \in 1..Len(placed) :
                                  placed[i].skill = gaps[g].skill})
                    = IF gaps[g].skill \in call.lc_skills THEN 0 ELSE 1
            /\ \A i \in 1..Len(placed) :
                  /\ \E g \in 1..Len(gaps) : gaps[g].skill = placed[i].skill
                  /\ placed[i].skill = "cobol" => placed[i].hours = 20
            /\ ret.total_hours = SumHours(placed)
            /\ ret.total_items = Len(placed)

\* C15's case: three gaps, one hinted away, one outside the library; the two
\* placed items make 20 + 80 = 100 hours.
C15_Witness ==
    /\ Done("generate_roadmap")
    /\ Len(call.skill_gaps.missing_skills) = 3
    /\ call.lc_skills = {"git", "Python"}
    /\ {call.skill_gaps.missing_skills[i].skill : i \in 1..3}
          = {"git", "cobol", "machine learning"}
    /\ ret.total_items = 2
    /\ ret.total_hours = 100

\* A Python list passed where a dict is expected
AsList(items) == [kind |-> "list", items |-> items]

\* ------------------------------------------------------------------------
\* app.py: _run_pipeline, one action per guarded step
\* ------------------------------------------------------------------------
\* Outputs of the external collaborators: sorted, duplicate-free, lowercase
\* skill lists of at most MaxCand skills, and counters.
ResumeSkillSets == {S \in SUBSET {"python", "sql", "git"} : Cardinality(S) <= MaxCand}

GithubSkillSets == {S \in SUBSET {"python", "docker"} : Cardinality(S) <= MaxCand}

RepoCounts == {0, 5}

LeetcodeTotals == {0, 150}

\* The form's target role, stripped; "" stands for None.
TargetRoles == {"", "Backend Developer", "data scientist", "Ghost"}

\* _parse_cgpa: None or a value clamped to [0, 10]
PipelineCgpas == {Absent, Some(0), Some(850)}

PipelineCatalogues ==
    { <<>>,
      <<BackendRole, DataRole>>,
      <<DataRole, BackendRole, InternRole>>,
      <<InternRole, TraineeRole>> }

\* The text extract_resume_text hands back: none (the step raised), empty,
\* shorter than _MIN_RESUME_CHARS, or longer.
TextStates == {"raise", "empty", "short", "long"}

\* get_leetcode_stats' counters, and _lc_zero
LcStats(n) == [total |-> n, easy |-> n, medium |-> 0, hard |-> 0]

LcZero == LcStats(0)

\* leetcode_parser.py _infer_skills(easy, medium, hard): the skills that
\* get_leetcode_data derives from the solved-problem counters (dsa_skills).
InferSkills(easy, medium, hard) ==
    (IF easy + medium + hard >= 25
     THEN {"arrays", "strings", "hash table"} ELSE {})
    \cup (IF easy + medium + hard >= 50
          THEN {"sorting", "binary search", "math"} ELSE {})
    \cup (IF medium >= 20
          THEN {"dynamic programming", "sliding window", "two pointers"}
          ELSE {})
    \cup (IF medium >= 30
          THEN {"binary tree", "graph", "recursion", "backtracking"} ELSE {})
    \cup (IF hard >= 10
          THEN {"heap", "trie", "segment tree", "bit manipulation",
                "topological sort", "union find"}
          ELSE {})

InitPipeline ==
    /\ roles \in PipelineCatalogues
    /\ pc = "idle"
    /\ call = Idle
    /\ ret = Idle
    /\ pl = NoPipeline
    /\ OutsideIdle

\* `x if c else nothing` for warnings.append and for the record of the
\* stages that raised
When(c, x) == IF c THEN <<x>> ELSE <<>>

Raised(c, stage) == IF c THEN {stage} ELSE {}

\* Steps 1-2: extract_resume_text (text = "raise": it raised, text stays "")
\* and extract_resume_skills (rs: what it finds in a non-empty text).
ResumeStep(t, g, text, rs, skills_raise) ==
    /\ pc = "idle"
    /\ LET resume_skills ==
               IF skills_raise \/ text \in {"raise", "empty"} THEN <<>>
               ELSE SortedNames(rs)
       IN  pl' = [stage |-> "github", target_role |-> t, cgpa |-> g,
                  resume_skills |-> resume_skills, github_user |-> FALSE,
                  github_skills |-> <<>>, repo_count |-> 0,
                  leetcode_user |-> FALSE, leetcode_stats |-> LcZero,
                  leetcode_total |-> 0,
                  candidate_skills |-> <<>>, authenticity |-> 0, role |-> "",
                  match |-> 0, effective_role |-> "", gaps |-> <<>>,
                  readiness |-> 0, roadmap |-> AsList(<<>>),
                  warnings |-> When(text = "raise", "extraction failed")
                               \o When(text # "long", "text short or empty")
                               \o When(skills_raise, "skills not extracted")
                               \o When(resume_skills = <<>>, "no skills found"),
                  failed |-> Raised(text = "raise", "text")
                             \cup Raised(skills_raise, "skills")]
    /\ pc' = "pipeline"
    /\ call' = [op |-> "_run_pipeline"]
    /\ UNCHANGED <<roles, ret, outside>>

\* Step 3: get_github_profile; no user name or an exception leave the
\* default {"verified_skills": [], "repo_count": 0}.
GithubStep(user, raises, gs, n) ==
    /\ pc = "pipeline" /\ pl.stage = "github"
    /\ LET got == user /\ ~raises
           skills == IF got THEN SortedNames(gs) ELSE <<>>
           count == IF got THEN n ELSE 0
       IN  pl' = [pl EXCEPT !.stage = "leetcode",
                            !.github_user = user,
                            !.github_skills = skills,
                            !.repo_count = count,
                            !.warnings =
                                @ \o When(~user, "no github user")
                                  \o When(got /\ skills = <<>> /\ count = 0,
                                          "github returned no data")
                                  \o When(user /\ raises, "github failed"),
                            !.failed = @ \cup Raised(user /\ raises, "github")]
    /\ UNCHANGED <<roles, pc, call, ret, outside>>

\* Step 4: get_leetcode_stats; no user name or an exception leave _lc_zero.
LeetcodeStep(user, raises, n) ==
    /\ pc = "pipeline" /\ pl.stage = "leetcode"
    /\ LET got == user /\ ~raises
           stats == IF got THEN LcStats(n) ELSE LcZero
       IN  pl' = [pl EXCEPT !.stage = "merge",
                            !.leetcode_user = user,
                            !.leetcode_stats = stats,
                            !.leetcode_total = stats.total,
                            !.warnings =
                                @ \o When(~user, "no leetcode user")
                                  \o When(got /\ stats.total = 0,
                                          "leetcode returned 0 solved")
                                  \o When(user /\ raises, "leetcode failed"),
                            !.failed = @ \cup Raised(user /\ raises, "leetcode")]
    /\ UNCHANGED <<roles, pc, call, ret, outside>>

\* The union that forgets the GitHub skills.
MergeFallbackResumeOnly(resume_skills, github_skills) ==
    SortedNames(LowerSet(resume_skills) \ {""})

\* sorted(set(s.lower() for s in (resume_skills + github_skills) if s))
MergeFallback(resume_skills, github_skills) ==
    SortedNames(LowerSet(resume_skills \o github_skills) \ {""})

\* Step 5: merge_candidate_skills(resume_skills, github_skills); an
\* exception leaves the union built in line.
MergeStep(raises) ==
    /\ pc = "pipeline" /\ pl.stage = "merge"
    /\ pl' = [pl EXCEPT !.stage = "authenticity",
                        !.candidate_skills =
                            IF raises
                            THEN MergeFallback(pl.resume_skills, pl.github_skills)
                            ELSE merge_candidate_skills(PyList(pl.resume_skills),
                                                        PyList(pl.github_skills)),
                        !.failed = @ \cup Raised(raises, "merge")]
    /\ UNCHANGED <<roles, pc, call, ret, outside>>

\* Step 6: compute_authenticity(resume_skills, github_skills); 0.0 on an
\* exception.
AuthenticityStep(raises) ==
    /\ pc = "pipeline" /\ pl.stage = "authenticity"
    /\ pl' = [pl EXCEPT !.stage = "role",
                        !.authenticity =
                            IF raises THEN 0
                            ELSE compute_authenticity(PyList(pl.resume_skills),
                                                      PyList(pl.github_skills)),
                        !.failed = @ \cup Raised(raises, "authenticity")]
    /\ UNCHANGED <<roles, pc, call, ret, outside>>

\* target_role or "Software Development Engineer"
FallbackRole(target_role) ==
    IF target_role # "" THEN target_role ELSE "Software Development Engineer"

\* target_role if target_role else role
EffectiveRole(target_role, role) ==
    IF target_role # "" THEN target_role ELSE role

\* Step 7: recommend_role, and the choice of the effective role; without
\* candidate skills or on an exception the fallback role and 0.0.
RoleStep(raises) ==
    /\ pc = "pipeline" /\ pl.stage = "role"
    /\ LET rec == IF ~raises /\ pl.candidate_skills # <<>>
                  THEN recommend_role(roles, PyList(pl.candidate_skills))
                  ELSE [role |-> FallbackRole(pl.target_role), ratio |-> 0]
       IN  pl' = [pl EXCEPT !.stage = "gaps",
                            !.role = rec.role,
                            !.match = rec.ratio,
                            !.effective_role =
                                EffectiveRole(pl.target_role, rec.role),
                            !.warnings =
                                @ \o When(~raises /\ pl.candidate_skills = <<>>,
                                          "no candidate skills"),
                            !.failed = @ \cup Raised(raises, "role")]
    /\ UNCHANGED <<roles, pc, call, ret, outside>>

\* Step 8: get_skill_gaps(candidate_skills, effective_role); [] on an
\* exception.
GapsStep(raises) ==
    /\ pc = "pipeline" /\ pl.stage = "gaps"
    /\ pl' = [pl EXCEPT !.stage = "readiness",
                        !.gaps = IF raises THEN <<>>
                                 ELSE get_skill_gaps(roles,
                                          PyList(pl.candidate_skills),
                                          pl.effective_role),
                        !.failed = @ \cup Raised(raises, "gaps")]
    /\ UNCHANGED <<roles, pc, call, ret, outside>>

\* Step 9: compute_readiness(match, authenticity, total, repo_count,
\* cgpa if cgpa is not None else 0.0); 0.0 on an exception.
ReadinessStep(raises) ==
    /\ pc = "pipeline" /\ pl.stage = "readiness"
    /\ pl' = [pl EXCEPT !.stage = "roadmap",
                        !.readiness =
                            IF raises THEN 0
                            ELSE compute_readiness(pl.match, pl.authenticity,
                                     pl.leetcode_stats.total, pl.repo_count,
                                     OptGet(pl.cgpa)),
                        !.warnings = @ \o When(pl.cgpa.none, "no cgpa"),
                        !.failed = @ \cup Raised(raises, "readiness")]
    /\ UNCHANGED <<roles, pc, call, ret, outside>>

\* Step 10: generate_roadmap(gaps, effective_role): the gap list is passed
\* as skill_gaps and the role name as candidate_skills; an exception leaves
\* roadmap = [].  Then the result dict is returned.
RoadmapStep(raises) ==
    /\ pc = "pipeline" /\ pl.stage = "roadmap"
    /\ LET r == IF raises THEN [kind |-> "raise", raised |-> TRUE]
                ELSE generate_roadmap(AsList(pl.gaps), "", {})
           roadmap == IF r.raised THEN AsList(<<>>) ELSE r
       IN  /\ pl' = [pl EXCEPT !.stage = "done",
                               !.roadmap = roadmap,
                               !.failed = @ \cup Raised(r.raised, "roadmap")]
           /\ ret' = [resume_skills |-> pl.resume_skills,
                      github_skills |-> pl.github_skills,
                      repo_count |-> pl.repo_count,
                      leetcode_stats |-> pl.leetcode_stats,
                      authenticity |-> pl.authenticity,
                      role |-> pl.effective_role,
                      match |-> pl.match,
                      readiness |-> pl.readiness,
                      gaps |-> pl.gaps,
                      roadmap |-> roadmap,
                      warnings |-> pl.warnings,
                      meta |-> [resume_filename |-> "resume.pdf",
                                github_user |-> pl.github_user,
                                leetcode_user |-> pl.leetcode_user,
                                cgpa |-> pl.cgpa,
                                target_role |-> pl.target_role]]
    /\ pc' = "done"
    /\ UNCHANGED <<roles, call, outside>>

\* A request whose collaborators and engines answer (none of them raises)
PipelineResume ==
    \E t \in TargetRoles, g \in PipelineCgpas,
       text \in TextStates \ {"raise"}, rs \in ResumeSkillSets :
        ResumeStep(t, g, text, rs, FALSE)

PipelineGithub ==
    \E user \in BOOLEAN, gs \in GithubSkillSets, n \in RepoCounts :
        GithubStep(user, FALSE, gs, n)

PipelineLeetcode ==
    \E user \in BOOLEAN, n \in LeetcodeTotals : LeetcodeStep(user, FALSE, n)

PipelineMerge == MergeStep(FALSE)

PipelineAuthenticity == AuthenticityStep(FALSE)

PipelineRole == RoleStep(FALSE)

PipelineGaps == GapsStep(FALSE)

PipelineReadiness == ReadinessStep(FALSE)

PipelineRoadmap == RoadmapStep(FALSE)

\* The route renders the result; nothing of the request is kept.
PipelineReturn ==
    /\ pc = "done" /\ pl.stage = "done"
    /\ pc' = "idle"
    /\ call' = Idle
    /\ ret' = Idle
    /\ pl' = NoPipeline
    /\ UNCHANGED <<roles, outside>>

NextPipeline ==
    \/ PipelineResume
    \/ PipelineGithub
    \/ PipelineLeetcode
    \/ PipelineMerge
    \/ PipelineAuthenticity
    \/ PipelineRole
    \/ PipelineGaps
    \/ PipelineReadiness
    \/ PipelineRoadmap
    \/ PipelineReturn

SpecPipeline == InitPipeline /\ [][NextPipeline]_vars

\* ------------------------------------------------------------------------
\* _run_pipeline with every guarded stage free to raise
\* ------------------------------------------------------------------------
FaultTargets == {"", "data scientist"}

FaultCgpas == {Absent, Some(850)}

FaultResumeSkills == {"python", "sql"}

FaultGithubSkills == {"python", "docker"}

InitFault ==
    /\ roles = <<BackendRole, DataRole>>
    /\ pc = "idle"
    /\ call = Idle
    /\ ret = Idle
    /\ pl = NoPipeline
    /\ OutsideIdle

FaultResume ==
    \E t \in FaultTargets, g \in FaultCgpas, text \in {"raise", "long"},
       skills_raise \in BOOLEAN :
        ResumeStep(t, g, text, FaultResumeSkills, skills_raise)

FaultGithub ==
    \E user, raises \in BOOLEAN : GithubStep(user, raises, FaultGithubSkills, 5)

FaultLeetcode ==
    \E user, raises \in BOOLEAN : LeetcodeStep(user, raises, 150)

FaultMerge == \E raises \in BOOLEAN : MergeStep(raises)

FaultAuthenticity == \E raises \in BOOLEAN : AuthenticityStep(raises)

FaultRole == \E raises \in BOOLEAN : RoleStep(raises)

FaultGaps == \E raises \in BOOLEAN : GapsStep(raises)

FaultReadiness == \E raises \in BOOLEAN : ReadinessStep(raises)

FaultRoadmap == \E raises \in BOOLEAN : RoadmapStep(raises)

NextFault ==
    \/ FaultResume
    \/ FaultGithub
    \/ FaultLeetcode
    \/ FaultMerge
    \/ FaultAuthenticity
    \/ FaultRole
    \/ FaultGaps
    \/ FaultReadiness
    \/ FaultRoadmap
    \/ PipelineReturn

SpecFault == InitFault /\ [][NextFault]_vars

\* ------------------------------------------------------------------------
\* Properties of the request pipeline (checked under SpecPipeline)
\* ------------------------------------------------------------------------
\* The unweighted coverage of one role by a candidate set, in ratio4.
CoverageOf(R, C) ==
    RoundHalfEven(10000 * Cardinality(RequiredSet(R) \cap C),
                  Cardinality(RequiredSet(R)))

\* C2: when the caller supplies a target role that is in the catalogue
\* (exactly or case-insensitively), every downstream output is computed for
\* that role: the reported role, the match ratio fed into the readiness
\* score, and the gap list.  (The roadmap of that run is C3's subject.)
C2_TargetRoleOverrides ==
    (/\ Done("_run_pipeline")
     /\ pl.target_role # ""
     /\ LookupRole(roles, pl.target_role) # 0) =>
        LET T == roles[LookupRole(roles, pl.target_role)]
            C == {Lower(pl.candidate_skills[i]) :
                    i \in 1..Len(pl.candidate_skills)}
        IN  /\ Lower(ret.role) = Lower(T.name)
            /\ Range(ret.gaps) = RequiredSet(T) \ C
            /\ ret.match = CoverageOf(T, C)
            /\ ret.readiness =
                  compute_readiness(CoverageOf(T, C), pl.authenticity,
                      pl.leetcode_total, pl.repo_count, OptGet(pl.cgpa))

\* The case of C2 that fails: the target role is in the catalogue and is not
\* the best-fit role of the candidate.
C2_TargetNotBestFit ==
    /\ Done("_run_pipeline")
    /\ pl.target_role # ""
    /\ LookupRole(roles, pl.target_role) # 0
    /\ pl.role # ""
    /\ Lower(pl.role) # Lower(pl.target_role)

\* The target role of the run matches no role of the catalogue, and step 7
\* computed a recommendation from the candidate's skills.
UnknownTargetRun ==
    /\ Done("_run_pipeline")
    /\ pl.target_role # ""
    /\ ExactIndex(roles, pl.target_role) = 0
    /\ FoldedIndex(roles, pl.target_role) = 0
    /\ pl.candidate_skills # <<>>
    /\ "role" \notin pl.failed

\* C27: a supplied target role that matches no catalogue role, exactly or
\* case-insensitively, does not override: the role reported and used for the
\* gap list is the computed best-fit recommendation, in _run_pipeline and in
\* analyse_role_fit.
C27_UnknownTargetIgnored ==
    UnknownTargetRun =>
        LET recommendations ==
                recommend_roles(roles, PyList(pl.candidate_skills), pl.cgpa, 5)
        IN  /\ primary_role(roles, pl.target_role, recommendations)
                  = primary_role(roles, "", recommendations)
            /\ pl.effective_role = pl.role
            /\ ret.role = pl.role
            /\ "gaps" \notin pl.failed =>
                  ret.gaps = get_skill_gaps(roles, PyList(pl.candidate_skills),
                                            pl.role)

\* C27's case that fails: the run recommends a role of the catalogue, and
\* reports the unknown target role with an empty gap list.
C27_UnknownTargetOverrides ==
    /\ UnknownTargetRun
    /\ pl.target_role = "Ghost"
    /\ pl.role = "Backend Developer"
    /\ pl.effective_role = "Ghost"
    /\ ret.role = "Ghost"
    /\ ret.gaps = <<>>
    /\ get_skill_gaps(roles, PyList(pl.candidate_skills), pl.role) # <<>>

\* The skill is an item of exactly one phase of the roadmap plan.
InExactlyOnePhase(plan, skill) ==
    Cardinality({<<p, i>> \in PhaseNames \X (1..Len(plan.phases["short-term"])
                                                + Len(plan.phases["medium-term"])
                                                + Len(plan.phases["long-term"])) :
                    i <= Len(plan.phases[p]) /\ plan.phases[p][i].skill = skill}) = 1

\* C3: the roadmap stage consumes the gap list of the gap stage and returns
\* a roadmap plan in which every gap skill of the effective role appears in
\* exactly one phase; a non-empty gap list never yields an empty roadmap.
C3_RoadmapCoversGaps ==
    (Done("_run_pipeline") /\ ret.gaps # <<>>) =>
        /\ ret.roadmap.kind = "dict"
        /\ \A i \in 1..Len(ret.gaps) : InExactlyOnePhase(ret.roadmap, ret.gaps[i])
        /\ ret.roadmap.total_items > 0

\* The case of C3 that fails: a run whose gap stage found gaps.
C3_GapsFound ==
    /\ Done("_run_pipeline")
    /\ ret.gaps # <<>>

\* C19: the candidate skills that _run_pipeline hands to recommend_role and
\* get_skill_gaps are the union of the resume skills, the GitHub skills and
\* the skills derived from the LeetCode counters.
C19_ThreeSourceUnion ==
    Done("_run_pipeline") =>
        Range(pl.candidate_skills) =
            LowerSet(pl.resume_skills) \cup LowerSet(pl.github_skills)
            \cup InferSkills(pl.leetcode_stats.easy, pl.leetcode_stats.medium,
                             pl.leetcode_stats.hard)

\* C19's case: a LeetCode profile with 150 solved problems, whose derived
\* skills are not among the candidate skills.
C19_LeetcodeSkillsDropped ==
    /\ Done("_run_pipeline")
    /\ pl.leetcode_stats.total = 150
    /\ "arrays" \in InferSkills(pl.leetcode_stats.easy,
                                pl.leetcode_stats.medium,
                                pl.leetcode_stats.hard)
    /\ "arrays" \notin Range(pl.candidate_skills)
    /\ Range(pl.candidate_skills) =
          LowerSet(pl.resume_skills) \cup LowerSet(pl.github_skills)
    /\ pl.candidate_skills # <<>>

\* ------------------------------------------------------------------------
\* Properties of the pipeline under raising stages (checked under SpecFault)
\* ------------------------------------------------------------------------
ResultKeys ==
    {"resume_skills", "github_skills", "repo_count", "leetcode_stats",
     "authenticity", "role", "match", "readiness", "gaps", "roadmap",
     "warnings", "meta"}

AllStages ==
    {"text", "skills", "github", "leetcode", "merge", "authenticity", "role",
     "gaps", "readiness", "roadmap"}

\* The returned result has every documented key, and the output of each
\* stage that raised is that stage's default.
ResultCompleteWithDefaults ==
    Done("_run_pipeline") =>
          /\ DOMAIN ret = ResultKeys
          /\ DOMAIN ret.meta = {"resume_filename", "github_user",
                                "leetcode_user", "cgpa", "target_role"}
          /\ pl.failed \cap {"text", "skills"} # {} => ret.resume_skills = <<>>
          /\ "github" \in pl.failed =>
                ret.github_skills = <<>> /\ ret.repo_count = 0
          /\ "leetcode" \in pl.failed =>
                ret.leetcode_stats
                    = [total |-> 0, easy |-> 0, medium |-> 0, hard |-> 0]
          /\ "merge" \in pl.failed =>
                /\ Range(pl.candidate_skills)
                     = CandidateSet(PyList(ret.resume_skills))
                         \cup CandidateSet(PyList(ret.github_skills))
                /\ NoDuplicates(pl.candidate_skills)
          /\ "authenticity" \in pl.failed => ret.authenticity = 0
          /\ "role" \in pl.failed =>
                /\ ret.match = 0
                /\ ret.role = IF pl.target_role # "" THEN pl.target_role
                              ELSE "Software Development Engineer"
          /\ "gaps" \in pl.failed => ret.gaps = <<>>
          /\ "readiness" \in pl.failed => ret.readiness = 0
          /\ "roadmap" \in pl.failed => ret.roadmap = AsList(<<>>)

\* The stages after the two resume steps, in the order the code runs them.
StageOrder ==
    <<"github", "leetcode", "merge", "authenticity", "role", "gaps",
      "readiness", "roadmap">>

StageIndex(stage) == CHOOSE i \in 1..Len(StageOrder) : StageOrder[i] = stage

\* A running pipeline is at a stage that has a step, and a step taken there
\* leads to the next stage, or to the return after the last one.
StageAdvances ==
    pc = "pipeline" =>
        /\ pl.stage \in Range(StageOrder)
        /\ \/ /\ pl.stage # "roadmap"
              /\ pc' = "pipeline"
              /\ pl'.stage = StageOrder[StageIndex(pl.stage) + 1]
           \/ /\ pl.stage = "roadmap"
              /\ pc' = "done"
              /\ call'.op = "_run_pipeline"

\* C16: whichever of the ten stages raise, _run_pipeline goes through its
\* stages in order to its return (no outcome of a stage stops it or leads
\* anywhere else), and the result it returns has every documented key, the
\* output of each stage that raised being its default: no resume skills, no
\* GitHub skills and 0 repositories, all-zero LeetCode counters, the union
\* of the two skill lists built in line, authenticity 0.0, the fallback
\* role with match 0.0, no gaps, readiness 0.0, an empty roadmap.
C16_PipelineNeverRaises ==
    /\ []ResultCompleteWithDefaults
    /\ [][StageAdvances]_vars

\* C16's case: a run in which all ten stages raised.
C16_Witness ==
    /\ Done("_run_pipeline")
    /\ pl.failed = AllStages
    /\ DOMAIN ret = ResultKeys
    /\ ret.gaps = <<>>
    /\ ret.readiness = 0
    /\ ret.role = "Software Development Engineer"

\* ------------------------------------------------------------------------
\* Calls of extract_resume_skills
\* ------------------------------------------------------------------------
MaxText == 4

Texts == PyLists(Alphabet, MaxText)

ExtractResumeSkills ==
    /\ pc = "idle"
    /\ \E v \in Vocabularies, t \in Texts :
        /\ call' = [op |-> "extract_resume_skills", text |-> t, patterns |-> v]
        /\ ret' = extract_resume_skills(v, t)
    /\ pc' = "done"
    /\ UNCHANGED <<roles, pl, outside>>

NextExtract == ExtractResumeSkills \/ Return

SpecExtract == InitScore /\ [][NextExtract]_vars

\* ------------------------------------------------------------------------
\* Properties of the skill extraction (checked under SpecExtract)
\* ------------------------------------------------------------------------
\* The skill occurs in t, character for character, with no character of
\* [a-z0-9] immediately before or after the occurrence.
Standalone(skill, t) ==
    LET k == SkillChars(skill)
    IN  \E i \in 1..(Len(t) - Len(k) + 1) :
            /\ SubSeq(t, i, i + Len(k) - 1) = k
            /\ i > 1 => t[i - 1] \notin {"g", "o", "s"}
            /\ i + Len(k) <= Len(t) => t[i + Len(k)] \notin {"g", "o", "s"}

NoRecord == [none |-> TRUE]

SomeRecord(r) == [none |-> FALSE, rec |-> r]

\* The duplicate check that finds nothing.
HasAppliedNever(records, job_id, student_id) == FALSE

\* for app in records: app.get("job_id") == job_id and
\* app.get("student_id") == student_id
HasApplied(records, job_id, student_id) ==
    \E i \in 1..Len(records) :
        records[i].job_id = job_id /\ records[i].student_id = student_id

\* The application record: id is the uuid4 drawn (the n-th one of the run),
\* applied_at the time of the call, which grows with the calls.  The
\* profile fields are copies of the caller's profile and are left out.
Application(n, job_id, student_id) ==
    [id |-> n, job_id |-> job_id, student_id |-> student_id, applied_at |-> n]

\* _write_json(path, records): the new content of the file; a failed write
\* leaves the file as it was.
WriteJson(old, records, write_ok) == IF write_ok THEN records ELSE old

\* apply_to_job(job_id, student_id, profile) on the store f; write_ok is the
\* outcome of _write_json.  Gives the store afterwards and the value returned.
apply_to_job(f, job_id, student_id, write_ok) ==
    LET j == Strip(job_id)
        st == Strip(student_id)
        records == f.apps
        application == Application(f.issued + 1, j, st)
    IN  IF j = "" \/ st = "" THEN [files |-> f, result |-> NoRecord]
        ELSE IF HasApplied(records, j, st) THEN [files |-> f, result |-> NoRecord]
        ELSE [files |-> [f EXCEPT
                           !.apps = WriteJson(@, Append(records, application),
                                              write_ok),
                           !.issued = @ + 1],
              result |-> SomeRecord(application)]

\* sorted(matches, key=applied_at, reverse=True): the records were appended
\* in the order of their applied_at, so newest first is the reverse.
get_applications_for_student(f, student_id) ==
    IF student_id = "" THEN <<>>
    ELSE Reverse(SelectSeq(f.apps, LAMBDA a : a.student_id = student_id))

\* create_job(title, company, ..., created_by): a ValueError for a blank
\* title, company or created_by, else the job record, written or not.
create_job(f, title, company, created_by, write_ok) ==
    IF Strip(title) = "" \/ Strip(company) = "" \/ Strip(created_by) = ""
    THEN [files |-> f, raised |-> TRUE, result |-> NoRecord]
    ELSE LET job == [id |-> f.issued + 1, title |-> Strip(title),
                     company |-> Strip(company),
                     created_by |-> Strip(created_by),
                     created_at |-> f.issued + 1]
         IN  [files |-> [f EXCEPT
                           !.jobs = WriteJson(@, Append(f.jobs, job), write_ok),
                           !.issued = @ + 1],
              raised |-> FALSE,
              result |-> SomeRecord(job)]

\* get_job(job_id): the first record with this id, or None; 0 stands for
\* the empty id.
get_job(f, job_id) ==
    IF job_id = 0 \/ ~\E i \in 1..Len(f.jobs) : f.jobs[i].id = job_id
    THEN NoRecord
    ELSE SomeRecord(f.jobs[CHOOSE i \in 1..Len(f.jobs) :
                              /\ f.jobs[i].id = job_id
                              /\ \A k \in 1..(i - 1) : f.jobs[k].id # job_id])

\* ------------------------------------------------------------------------
\* Sequential calls on the stores
\* ------------------------------------------------------------------------
MaxIssued == 3

JobIds == {"j1", " j1 ", "j2", "", " "}

StudentIds == {"alice", "bob", " "}

Titles == {"SDE", " "}

Companies == {"Acme", ""}

Recruiters == {"rita", ""}

ApplyToJob ==
    /\ pc = "idle"
    /\ files.issued < MaxIssued
    /\ \E j \in JobIds, st \in StudentIds, write_ok \in BOOLEAN :
        LET r == apply_to_job(files, j, st, write_ok)
        IN  /\ call' = [op |-> "apply_to_job", job_id |-> j, student_id |-> st,
                        write_ok |-> write_ok, before |-> files.apps]
            /\ files' = r.files
            /\ ret' = r.result
    /\ pc' = "done"
    /\ UNCHANGED <<roles, pl, procs, session, http>>

CreateJob ==
    /\ pc = "idle"
    /\ files.issued < MaxIssued
    /\ \E t \in Titles, c \in Companies, by \in Recruiters, write_ok \in BOOLEAN :
        LET r == create_job(files, t, c, by, write_ok)
        IN  /\ call' = [op |-> "create_job", title |-> t, company |-> c,
                        created_by |-> by, write_ok |-> write_ok]
            /\ files' = r.files
            /\ ret' = [raised |-> r.raised, result |-> r.result]
    /\ pc' = "done"
    /\ UNCHANGED <<roles, pl, procs, session, http>>

GetApplicationsForStudent ==
    /\ pc = "idle"
    /\ \E st \in StudentIds \cup {""} :
        /\ call' = [op |-> "get_applications_for_student", student_id |-> st]
        /\ ret' = get_applications_for_student(files, st)
    /\ pc' = "done"
    /\ UNCHANGED <<roles, pl, outside>>

GetJob ==
    /\ pc = "idle"
    /\ \E id \in 0..MaxIssued :
        /\ call' = [op |-> "get_job", job_id |-> id]
        /\ ret' = get_job(files, id)
    /\ pc' = "done"
    /\ UNCHANGED <<roles, pl, outside>>

NextStore ==
    \/ ApplyToJob
    \/ CreateJob
    \/ GetApplicationsForStudent
    \/ GetJob
    \/ Return

SpecStore == InitScore /\ [][NextStore]_vars

C30_ReturnedRecordIsStored ==
    /\ (Done("apply_to_job") /\ ~ret.none) =>
          /\ ret.rec \in Range(files.apps)
          /\ ret.rec \in Range(get_applications_for_student(
                                    files, ret.rec.student_id))
    /\ (Done("create_job") /\ ~ret.result.none) =>
          get_job(files, ret.result.rec.id) = ret.result

\* C30's case: the write fails, apply_to_job returns the record, and the
\* store does not hold it.
C30_ReturnedButNotStored ==
    /\ Done("apply_to_job")
    /\ ~call.write_ok
    /\ ~ret.none
    /\ ret.rec.job_id = "j1" /\ ret.rec.student_id = "alice"
    /\ files.apps = <<>>
    /\ get_applications_for_student(files, "alice") = <<>>

\* ------------------------------------------------------------------------
\* Concurrent calls of apply_to_job (two request threads, one store)
\* ------------------------------------------------------------------------
Procs == {1, 2}

ConcJobIds == {"j1", "j2", " "}

ConcStudentIds == {"alice", "bob"}

\* A store that already holds an application.
OneApplication ==
    [apps |-> <<Application(1, "j1", "alice")>>, jobs |-> <<>>, issued |-> 1]

\* A call that has its arguments and has not run yet.
Entered(job_id, student_id) ==
    [at |-> "strip", job_id |-> job_id, student_id |-> student_id,
     records |-> <<>>, application |-> NoRecord, result |-> NoRecord]

InitConcurrent ==
    /\ roles = <<>>
    /\ pc = "idle"
    /\ call = Idle
    /\ ret = Idle
    /\ pl = NoPipeline
    /\ files \in {NoFiles, OneApplication}
    /\ procs \in [Procs -> {Entered(j, st) : j \in ConcJobIds,
                                               st \in ConcStudentIds}]
    /\ session = NoSession
    /\ http = NoHttp

\* Lines 207-212: strip the ids; None when one is blank.
ApplyStrip(p) ==
    /\ procs[p].at = "strip"
    /\ LET j == Strip(procs[p].job_id)
           st == Strip(procs[p].student_id)
       IN  procs' = [procs EXCEPT ![p] =
                        [@ EXCEPT !.job_id = j, !.student_id = st,
                                  !.at = IF j = "" \/ st = "" THEN "returned"
                                         ELSE "read"]]
    /\ UNCHANGED <<roles, pc, call, ret, pl, files, session, http>>

\* Line 214: records = _read_json(_APPS_FILE)
ApplyRead(p) ==
    /\ procs[p].at = "read"
    /\ procs' = [procs EXCEPT ![p] = [@ EXCEPT !.records = files.apps,
                                               !.at = "check"]]
    /\ UNCHANGED <<roles, pc, call, ret, pl, files, session, http>>

\* Lines 217-233: the duplicate check on the records read, then the new
\* record with its uuid4.
ApplyCheck(p) ==
    /\ procs[p].at = "check"
    /\ IF HasApplied(procs[p].records, procs[p].job_id, procs[p].student_id)
       THEN /\ procs' = [procs EXCEPT ![p] = [@ EXCEPT !.at = "returned"]]
            /\ files' = files
       ELSE /\ procs' = [procs EXCEPT ![p] =
                            [@ EXCEPT !.application =
                                          SomeRecord(Application(
                                              files.issued + 1,
                                              procs[p].job_id,
                                              procs[p].student_id)),
                                      !.at = "write"]]
            /\ files' = [files EXCEPT !.issued = @ + 1]
    /\ UNCHANGED <<roles, pc, call, ret, pl, session, http>>

\* Lines 235-245: append to the records read, write them, return the
\* record.  The write succeeds here.
ApplyWrite(p) ==
    /\ procs[p].at = "write"
    /\ files' = [files EXCEPT
                    !.apps = WriteJson(@, Append(procs[p].records,
                                                 procs[p].application.rec),
                                       TRUE)]
    /\ procs' = [procs EXCEPT ![p] =
                    [@ EXCEPT !.result = procs[p].application,
                              !.at = "returned"]]
    /\ UNCHANGED <<roles, pc, call, ret, pl, session, http>>

NextConcurrent ==
    \E p \in Procs :
        ApplyStrip(p) \/ ApplyRead(p) \/ ApplyCheck(p) \/ ApplyWrite(p)

SpecConcurrent == InitConcurrent /\ [][NextConcurrent]_vars

\* ------------------------------------------------------------------------
\* Properties of concurrent applications (checked under SpecConcurrent)
\* ------------------------------------------------------------------------
AllReturned == \A p \in DOMAIN procs : procs[p].at = "returned"

\* C29: when two concurrent apply_to_job calls have returned, the store
\* holds at most one application per (job_id, student_id) pair and holds
\* every application that a call returned.
C29_NoLostApplication ==
    (procs # <<>> /\ AllReturned) =>
        /\ \A i, k \in 1..Len(files.apps) :
              i # k => \/ files.apps[i].job_id # files.apps[k].job_id
                       \/ files.apps[i].student_id # files.apps[k].student_id
        /\ \A p \in DOMAIN procs :
              ~procs[p].result.none => procs[p].result.rec \in Range(files.apps)

\* C29's case: alice and bob apply for j1 at the same time, both calls
\* return a record, and the store holds bob's only.
C29_LostUpdate ==
    /\ procs # <<>>
    /\ AllReturned
    /\ ~procs[1].result.none /\ procs[1].result.rec.student_id = "alice"
    /\ ~procs[2].result.none /\ procs[2].result.rec.student_id = "bob"
    /\ procs[1].result.rec.job_id = "j1" /\ procs[2].result.rec.job_id = "j1"
    /\ Len(files.apps) = 1
    /\ files.apps[1].student_id = "bob"

\* ------------------------------------------------------------------------
\* leetcode_parser.py: _get_session and _gql_post
\* ------------------------------------------------------------------------
\* http.session is the module-level _session (0 for None, else the number of
\* the requests.Session object, in order of creation), http.failures is
\* _session_failures, http.created the number of sessions created so far,
\* http.posts the sessions on which the running _gql_post has posted.
MaxSessions == 5

MaxSessionFailures == 3

PostOutcomes == {"200", "other status", "timeout", "request exception"}

\* The module state after _get_session(), whose result is its session
\* field.  The outcome of the homepage GET changes the headers of the new
\* session only.
GetSession(h) ==
    IF h.session # 0 /\ h.failures < MaxSessionFailures THEN h
    ELSE [h EXCEPT !.session = h.created + 1, !.created = @ + 1,
                   !.failures = 0]

\* After a status other than 200: _session_failures += 1.  _gql_post declares
\* only _session_failures global, so its `_session = None` binds a local
\* name and the module-level _session stays.
AfterFailure(h) == [h EXCEPT !.failures = @ + 1]

\* def _gql_post(query, variables): entry, before the first attempt
GqlEnter ==
    /\ pc = "idle"
    /\ http.created < MaxSessions
    /\ pc' = "gql"
    /\ call' = [op |-> "_gql_post", attempt |-> 0]
    /\ http' = [http EXCEPT !.posts = <<>>]
    /\ UNCHANGED <<roles, ret, pl, files, procs, session>>

\* One pass of `for attempt in range(2)`: _get_session(), the POST and what
\* follows its outcome.
GqlAttempt ==
    /\ pc = "gql"
    /\ call.attempt < 2
    /\ \E outcome \in PostOutcomes :
        LET h == GetSession(http)
            posted == [h EXCEPT !.posts = Append(@, h.session)]
        IN  CASE outcome = "200" ->
                    /\ http' = posted
                    /\ pc' = "done"
                    /\ ret' = SomeRecord("json")
                    /\ call' = call
              [] outcome = "other status" ->
                    /\ http' = AfterFailure(posted)
                    /\ pc' = pc
                    /\ ret' = ret
                    /\ call' = [call EXCEPT !.attempt = @ + 1]
              [] OTHER ->
                    /\ http' = posted
                    /\ pc' = "done"
                    /\ ret' = NoRecord
                    /\ call' = call
    /\ UNCHANGED <<roles, pl, files, procs, session>>

\* The loop is over: return None
GqlGiveUp ==
    /\ pc = "gql"
    /\ call.attempt = 2
    /\ pc' = "done"
    /\ ret' = NoRecord
    /\ UNCHANGED <<roles, call, pl, outside>>

NextGql == GqlEnter \/ GqlAttempt \/ GqlGiveUp \/ Return

SpecGql == InitScore /\ [][NextGql]_vars

\* ------------------------------------------------------------------------
\* Properties of _gql_post (checked under SpecGql)
\* ------------------------------------------------------------------------
\* C25: a call of _gql_post posts at most twice, is over after the second
\* attempt, and after a first response other than 200 posts the second time
\* on a session created after the first attempt, not on the one it used.
C25_RetryOnFreshSession ==
    /\ Len(http.posts) <= 2
    /\ pc = "gql" => call.attempt <= 2
    /\ Len(http.posts) = 2 => http.posts[2] # http.posts[1]

\* C25's case: both attempts of a call got a status other than 200, and
\* both were posted on the session that was cached before the call.
C25_RetryOnCachedSession ==
    /\ Done("_gql_post")
    /\ call.attempt = 2
    /\ ret = NoRecord
    /\ http.posts = <<1, 1>>
    /\ http.created = 1
    /\ http.session = 1

\* ------------------------------------------------------------------------
\* app.py: require_role, /login, /logout
\* ------------------------------------------------------------------------
\* session is the Flask session of one browser: user and role are "" when
\* the key is absent, candidate_profile is TRUE when the key is set.
VALID_ROLES == {"student", "recruiter"}

\* The routes decorated with @require_role, each with its role_name
GuardedRoutes ==
    {[route |-> "recruiter_jobs", role_name |-> "recruiter"],
     [route |-> "job_new", role_name |-> "recruiter"],
     [route |-> "job_applicants", role_name |-> "recruiter"],
     [route |-> "index", role_name |-> "student"],
     [route |-> "analyze_alias", role_name |-> "student"],
     [route |-> "analyse", role_name |-> "student"],
     [route |-> "job_list", role_name |-> "student"],
     [route |-> "job_apply", role_name |-> "student"]}

FormUsernames == {"", " ", "alice", "bob"}

FormRoles == {"", "student", "recruiter", " recruiter ", "admin"}

\* require_role with any logged-in role let through
RoleAdmitsAnyLogin(s, role_name) == s.role # ""

\* wrapped: the handler runs unless session.get("role") != role_name
RoleAdmits(s, role_name) == s.role = role_name

\* The session after login()
login(s, method, username, role) ==
    IF s.role = "student" \/ s.role = "recruiter" THEN s
    ELSE IF method = "GET" THEN s
    ELSE IF Strip(username) = "" THEN s
    ELSE IF Strip(role) \notin VALID_ROLES THEN s
    ELSE [s EXCEPT !.user = Strip(username), !.role = Strip(role)]

\* A request to /login
Login ==
    /\ pc = "idle"
    /\ \E method \in {"GET", "POST"}, username \in FormUsernames, role \in FormRoles :
        /\ call' = [op |-> "login", method |-> method, username |-> username,
                    role |-> role, before |-> session]
        /\ session' = login(session, method, username, role)
    /\ pc' = "done"
    /\ ret' = [ran |-> TRUE]
    /\ UNCHANGED <<roles, pl, files, procs, http>>

\* A request to /logout: session.clear()
Logout ==
    /\ pc = "idle"
    /\ call' = [op |-> "logout", before |-> session]
    /\ session' = NoSession
    /\ pc' = "done"
    /\ ret' = [ran |-> TRUE]
    /\ UNCHANGED <<roles, pl, files, procs, http>>

\* A request to a route under @require_role.  Of the guarded handlers only
\* analyse writes the session, on the path that reaches the pipeline.
GuardedRequest ==
    /\ pc = "idle"
    /\ \E g \in GuardedRoutes, uploaded \in BOOLEAN :
        LET ran == RoleAdmits(session, g.role_name)
        IN  /\ call' = [op |-> "require_role", route |-> g.route,
                        role_name |-> g.role_name, before |-> session]
            /\ ret' = [ran |-> ran]
            /\ session' = IF ran /\ g.route = "analyse" /\ uploaded
                           THEN [session EXCEPT !.candidate_profile = TRUE]
                           ELSE session
    /\ pc' = "done"
    /\ UNCHANGED <<roles, pl, files, procs, http>>

NextAuth == Login \/ Logout \/ GuardedRequest \/ Return

SpecAuth == InitScore /\ [][NextAuth]_vars

\* ------------------------------------------------------------------------
\* Properties of the session guard (checked under SpecAuth)
\* ------------------------------------------------------------------------
HandlerRan == Done("require_role") /\ ret.ran

SuccessfulLogin ==
    /\ Done("login")
    /\ call.method = "POST"
    /\ Strip(call.username) # ""
    /\ Strip(call.role) \in VALID_ROLES
    /\ session.user = Strip(call.username)
    /\ session.role = Strip(call.role)

GuardAndLoginRules ==
    /\ Done("require_role") => (ret.ran <=> call.before.role = call.role_name)
    /\ Done("login") /\ session # call.before => SuccessfulLogin
    /\ Done("logout") => session = NoSession
    /\ session.role \in VALID_ROLES \cup {""}

LoggedOutUntilLogin ==
    /\ session.role = "" /\ session'.role # "" => SuccessfulLogin'
    /\ session.role = "" /\ pc = "idle" => ~HandlerRan'

\* C26: a handler under require_role(X) runs only when the session role is
\* X; a request to /login changes the session only as a POST with a
\* non-empty username and the role student or recruiter; /logout leaves the
\* session without a role, and from a session without a role no guarded
\* handler runs and only a successful login sets a role again.
C26_GuardedByRole == []GuardAndLoginRules /\ [][LoggedOutUntilLogin]_vars

\* C26's case: after a login as recruiter the handler of a recruiter route
\* has run for that user.
C26_Witness ==
    /\ HandlerRan
    /\ call.role_name = "recruiter"
    /\ call.before.role = "recruiter"
    /\ call.before.user = "alice"

====
